---- MODULE Spec2Model ----
(***************************************************************************)
(* Model of the toonslate backend: the weekly image quota                  *)
(* (src/services/quota.py), the request orchestration of POST /translate   *)
(* and POST /batch (src/routes/translate.py, src/routes/batch.py), the     *)
(* TranslateRecord store (src/services/translate.py, services/batch.py)    *)
(* and the Celery worker task (src/infra/workers/translate_job.py).        *)
(*                                                                         *)
(* The keyed store is Redis: a key is absent or holds a value, with or     *)
(* without an expiry.  GET of an absent key yields nil, INCRBY creates the *)
(* key, EXPIRE sets an expiry, SET ... KEEPTTL keeps the expiry of an      *)
(* existing key and creates an absent key WITHOUT expiry.  A Lua script    *)
(* runs atomically; two separate commands do not.                          *)
(***************************************************************************)
EXTENDS Integers, Sequences, FiniteSets, TLC

(***************************************************************************)
(* Bounds of the model and program constants.                              *)
(***************************************************************************)
NumReqs == 2            \* concurrent request handlers
MaxBatch == 2           \* images per modelled batch (1..MaxBatch)
MaxWeek == 2            \* ISO weeks the clock runs through
MaxCount == 14          \* largest count of a direct quota call (SpecQuota)
NumWorkers == 2         \* worker processes
MaxDeliver == 2         \* deliveries of one task message (redelivery)

WEEKLY_IMAGES == 20     \* Limits.WEEKLY_IMAGES
MAX_BATCH_SIZE == 10    \* Limits.MAX_BATCH_SIZE
ID_HEX_LEN == 8         \* TranslateId.PATTERN: [a-f0-9]{8}

Clients == {"ipA"}
Reqs == 1..NumReqs
Weeks == 1..MaxWeek
Workers == 1..NumWorkers
Tid == Reqs \X (1..MaxBatch)

Min(a, b) == IF a < b THEN a ELSE b
Max(a, b) == IF a > b THEN a ELSE b

VARIABLES
  week,     \* the current ISO week (datetime.now(UTC).isocalendar())
  quota,    \* quota[c][w]: the key usage:images:{c}:{w}
  rec,      \* rec[tid]: the key translate:{tid}
  batch,    \* batch[r]: the key batch:{id} of request r (n: its images)
  files,    \* tids whose result/{tid}_result.png exists
  queue,    \* queue[tid]: task messages of tid waiting on the broker
  sent,     \* sent[tid]: task messages ever published for tid
  delivered,\* delivered[tid]: executions of translate_job(tid) started
  req,      \* req[r]: the request handler r (its position and locals)
  wk,       \* wk[w]: the worker process w (its position and locals)
  qlog      \* the quota script the last step executed, if any (observation)

storeVars == <<week, quota, rec, batch, files>>
queueVars == <<queue, sent, delivered>>
vars == <<week, quota, rec, batch, files, queue, sent, delivered, req, wk, qlog>>

(***************************************************************************)
(* Keyed-store values.                                                     *)
(***************************************************************************)
NoKey == [ex |-> FALSE, val |-> 0, ttl |-> FALSE]

NoRec == [ex |-> FALSE, status |-> "none", err |-> "none", url |-> FALSE,
          done |-> FALSE, ttl |-> FALSE]

NoBatch == [ex |-> FALSE, ttl |-> FALSE, n |-> 0]

MSG_QUEUE == "queueing failed"          \* "작업 큐잉에 실패했습니다..."
MSG_TIMEOUT == "timeout"                \* "처리 시간 초과"
MSG_NOIMAGE == "image not found"        \* "이미지를 찾을 수 없음"

Terminal == {"completed", "failed"}

\* redis.call("GET", KEYS[1]) or "0"
GetOrZero(q) == IF q.ex THEN q.val ELSE 0

(***************************************************************************)
(* services/quota.py: the two Lua scripts.                                 *)
(***************************************************************************)
ConsumeScriptNoLimit(current, requested, limit) == current + requested

ConsumeScriptPartial(current, requested, limit) ==
  IF current + requested > limit
    THEN (IF current < limit THEN limit ELSE -1)
    ELSE current + requested

\* _CONSUME_SCRIPT: the value returned (-1: rejected)
ConsumeScript(current, requested, limit) ==
  IF current + requested > limit THEN -1 ELSE current + requested

ConsumeKeyNoRollback(q, requested, limit) ==
  [ex |-> TRUE, val |-> GetOrZero(q) + requested, ttl |-> TRUE]

\* _CONSUME_SCRIPT: the key after the script (INCRBY, then EXPIRE)
ConsumeKey(q, requested, limit) ==
  LET res == ConsumeScript(GetOrZero(q), requested, limit)
  IN IF res = -1 THEN q ELSE [ex |-> TRUE, val |-> res, ttl |-> TRUE]

RefundScriptOffByOne(current, refund) ==
  IF current - refund - 1 < 0 THEN 0 ELSE current - refund - 1

\* _REFUND_SCRIPT: the value returned (new_val)
RefundScript(current, refund) ==
  LET new_val == current - refund
  IN IF new_val < 0 THEN 0 ELSE new_val

\* _REFUND_SCRIPT: the key after SET KEYS[1] new_val KEEPTTL
RefundKey(q, refund) ==
  [ex |-> TRUE, val |-> RefundScript(GetOrZero(q), refund), ttl |-> q.ex /\ q.ttl]

\* what one script execution did, as seen from outside
QLog(op, c, n, before, after, ok) ==
  [op |-> op, c |-> c, w |-> week, n |-> n, before |-> before, after |-> after,
   ok |-> ok]

NoLog == [op |-> "none", c |-> "ipA", w |-> 1, n |-> 0, before |-> NoKey,
          after |-> NoKey, ok |-> TRUE]


(***************************************************************************)
(* services/quota.py: check_and_consume_quota and refund_quota.  The key   *)
(* is computed from the clock at each call (_get_quota_key).               *)
(***************************************************************************)
\* check_and_consume_quota(c, count), count > 0: the store after the call
CheckAndConsumeQuota(c, count) ==
  /\ quota' = [quota EXCEPT ![c][week] = ConsumeKey(@, count, WEEKLY_IMAGES)]
  /\ qlog' = QLog("consume", c, count, quota[c][week], quota'[c][week],
                  ConsumeScript(GetOrZero(quota[c][week]), count, WEEKLY_IMAGES) # -1)

\* whether check_and_consume_quota(c, count) raises QuotaExceededError
QuotaExceeded(c, count) ==
  ConsumeScript(GetOrZero(quota[c][week]), count, WEEKLY_IMAGES) = -1

\* refund_quota(c, count), count > 0; ok = FALSE: the call raised (the
\* store was unreachable) and the script did not run
RefundQuota(c, count, ok) ==
  /\ quota' = IF ok THEN [quota EXCEPT ![c][week] = RefundKey(@, count)] ELSE quota
  /\ qlog' = IF ok
               THEN QLog("refund", c, count, quota[c][week], quota'[c][week], TRUE)
               ELSE NoLog

\* by how much the counter of the current week's key drops in that call
RefundDrop(c, count, ok) ==
  IF ok THEN GetOrZero(quota[c][week]) - RefundKey(quota[c][week], count).val ELSE 0

(***************************************************************************)
(* A request handler.  pc is its position; kind, c (hashed ip) and n       *)
(* (image_count) its inputs; i the loop index; failed is failed_count;     *)
(* resp the HTTP status returned (0: still running).  The other fields     *)
(* record what the handler did: net is the sum of the changes its quota    *)
(* calls made to the counters, enq the tasks it published, refunds the     *)
(* counts of the refund_quota calls it issued, rfail whether one of them   *)
(* raised, qf the children whose enqueue raised, uf those whose status     *)
(* update raised.  body is the BatchResponse object the handler holds      *)
(* (the local "response" of routes/batch.py), returned with a 201; for a   *)
(* GET /batch/{id} handler bid is the batch asked for and body the         *)
(* response being built.  ups[k] tells whether the k-th upload id of the   *)
(* request has an UploadRecord, bad is the upload id (its index) named by  *)
(* a 400 INVALID_UPLOAD_ID.  For a POST /erase handler tidin is the        *)
(* translate_id received (a string, as its characters), code the error     *)
(* code answered, touched what the handler has accessed so far and simg    *)
(* whether the request carries a sourceImage; rweek is the week of the    *)
(* quota key the handler reserved from (0: no reservation); last is the    *)
(* status the client's previous GET /batch of the same batch returned.     *)
(***************************************************************************)
NoBody == [status |-> "none", images |-> <<>>]

IdleReq ==
  [pc |-> "idle", kind |-> "none", c |-> "ipA", n |-> 0, i |-> 0, failed |-> 0,
   resp |-> 0, net |-> 0, enq |-> 0, refunds |-> <<>>, rfail |-> FALSE,
   qf |-> {}, uf |-> {}, snap |-> NoRec, body |-> NoBody, bid |-> 0,
   ups |-> <<>>, bad |-> 0, tidin |-> <<>>, code |-> "none", touched |-> {},
   simg |-> FALSE, rweek |-> 0, last |-> "none"]

FirstMissingSkipsLast(ups, image_count) ==
  IF \E k \in 1..(image_count - 1) : ~ups[k]
    THEN CHOOSE k \in 1..(image_count - 1) :
           ~ups[k] /\ \A j \in 1..(k - 1) : ups[j]
    ELSE 0

\* routes: the loop over request.upload_ids calling validate_upload_id: the
\* first upload id without UploadRecord (InvalidUploadError), 0 when all exist
FirstMissing(ups, image_count) ==
  IF \E k \in 1..image_count : ~ups[k]
    THEN CHOOSE k \in 1..image_count : ~ups[k] /\ \A j \in 1..(k - 1) : ups[j]
    ELSE 0

\* routes: hash_ip and validate_upload_id for each upload id; an upload id
\* without UploadRecord: 400 INVALID_UPLOAD_ID naming it
Start(r) ==
  /\ req[r].pc = "idle"
  /\ \E kind \in {"translate", "batch"}, c \in Clients, n \in 1..MaxBatch :
       \E ups \in [1..n -> BOOLEAN] :
         /\ kind = "translate" => n = 1
         /\ n <= MAX_BATCH_SIZE
         /\ req' = [req EXCEPT ![r] =
              [@ EXCEPT !.kind = kind, !.c = c, !.n = n, !.ups = ups,
                        !.bad = FirstMissing(ups, n),
                        !.pc = IF FirstMissing(ups, n) = 0 THEN "consume" ELSE "done",
                        !.resp = IF FirstMissing(ups, n) = 0 THEN 0 ELSE 400]]
  /\ UNCHANGED <<storeVars, queueVars, wk>>
  /\ qlog' = NoLog

\* routes: check_and_consume_quota(hashed_ip, image_count); 429 when rejected
Consume(r) ==
  /\ req[r].pc = "consume"
  /\ CheckAndConsumeQuota(req[r].c, req[r].n)
  /\ req' = [req EXCEPT ![r] =
       IF QuotaExceeded(req[r].c, req[r].n)
         THEN [@ EXCEPT !.pc = "done", !.resp = 429]
         ELSE [@ EXCEPT !.pc = "create", !.i = 1, !.rweek = week,
                        !.net = @ + (ConsumeKey(quota[req[r].c][week], req[r].n,
                                                WEEKLY_IMAGES).val
                                     - GetOrZero(quota[req[r].c][week]))]]
  /\ UNCHANGED <<week, rec, batch, files, queueVars, wk>>

\* services/translate.py create_translate: the pending record, SET with ex=TTL
PendingRec ==
  [ex |-> TRUE, status |-> "pending", err |-> "none", url |-> FALSE,
   done |-> FALSE, ttl |-> TRUE]

StoredNothing(cur, ok) ==
  cur

\* create_translate: redis.set(translate:{id}, metadata, ex=TTL.DATA) on the
\* key's value cur; ok = FALSE: it raised and nothing was stored
Stored(cur, ok) ==
  IF ok THEN PendingRec ELSE cur

\* create_translate for child i (of POST /translate: the only one); ok = FALSE:
\* it raised before the record was stored
CreateTranslate(r, ok) ==
  /\ req[r].pc = "create"
  /\ req[r].i <= req[r].n
  /\ rec' = [rec EXCEPT ![<<r, req[r].i>>] = Stored(@, ok)]
  /\ req' = [req EXCEPT ![r] =
       IF ~ok THEN [@ EXCEPT !.pc = "refund_create"]
       ELSE IF req[r].kind = "translate" THEN [@ EXCEPT !.pc = "enqueue", !.i = 1]
       ELSE [@ EXCEPT !.i = @ + 1]]
  /\ UNCHANGED <<week, quota, batch, files, queueVars, wk>>
  /\ qlog' = NoLog

\* services/batch.py create_batch: the BatchResponse it returns: status
\* "processing" and one BatchImageEntry with status "pending" per child
BatchCreated(image_count) ==
  [status |-> "processing",
   images |-> [i \in 1..image_count |-> [status |-> "pending", err |-> "none"]]]

\* services/batch.py create_batch: after the children, SET batch:{id} ex=TTL.DATA
CreateBatchRecord(r, ok) ==
  /\ req[r].pc = "create"
  /\ req[r].kind = "batch"
  /\ req[r].i = req[r].n + 1
  /\ batch' = IF ok THEN [batch EXCEPT ![r] = [ex |-> TRUE, ttl |-> TRUE, n |-> req[r].n]] ELSE batch
  /\ req' = [req EXCEPT ![r] =
       IF ok THEN [@ EXCEPT !.pc = "enqueue", !.i = 1,
                            !.body = BatchCreated(req[r].n)]
             ELSE [@ EXCEPT !.pc = "refund_create"]]
  /\ UNCHANGED <<week, quota, rec, files, queueVars, wk>>
  /\ qlog' = NoLog

\* routes: persisting raised: refund_quota(hashed_ip, image_count), best
\* effort, then the exception propagates (500)
RefundAfterCreate(r, ok) ==
  /\ req[r].pc = "refund_create"
  /\ RefundQuota(req[r].c, req[r].n, ok)
  /\ req' = [req EXCEPT ![r] =
       [@ EXCEPT !.pc = "done", !.resp = 500,
                 !.net = @ - RefundDrop(req[r].c, req[r].n, ok),
                 !.refunds = Append(@, req[r].n),
                 !.rfail = @ \/ ~ok]]
  /\ UNCHANGED <<week, rec, batch, files, queueVars, wk>>


AfterChildSkipsLast(q) ==
  IF q.kind = "translate" THEN [q EXCEPT !.pc = "done"]
  ELSE IF q.i + 1 < q.n THEN [q EXCEPT !.pc = "enqueue", !.i = @ + 1]
  ELSE [q EXCEPT !.pc = "final"]

\* the handler's position after child i has been dealt with
AfterChild(q) ==
  IF q.kind = "translate" THEN [q EXCEPT !.pc = "done"]
  ELSE IF q.i < q.n THEN [q EXCEPT !.pc = "enqueue", !.i = @ + 1]
  ELSE [q EXCEPT !.pc = "final"]

\* routes: asyncio.to_thread(translate_job.delay, translate_id) for child i;
\* ok = FALSE: delay raised and no message was published
Enqueue(r, ok) ==
  /\ req[r].pc = "enqueue"
  /\ queue' = IF ok THEN [queue EXCEPT ![<<r, req[r].i>>] = @ + 1] ELSE queue
  /\ sent' = IF ok THEN [sent EXCEPT ![<<r, req[r].i>>] = @ + 1] ELSE sent
  /\ req' = [req EXCEPT ![r] =
       IF ok
         THEN AfterChild([@ EXCEPT !.enq = @ + 1,
                                   !.resp = IF req[r].kind = "translate" THEN 201 ELSE @])
       ELSE IF req[r].kind = "translate"
         THEN [@ EXCEPT !.pc = "refund_queue", !.qf = @ \cup {req[r].i}]
       ELSE [@ EXCEPT !.pc = "upd_get", !.failed = @ + 1, !.qf = @ \cup {req[r].i}]]
  /\ UNCHANGED <<storeVars, delivered, wk>>
  /\ qlog' = NoLog

\* routes/translate.py: delay raised: refund_quota(hashed_ip, 1), best effort
RefundAfterQueue(r, ok) ==
  /\ req[r].pc = "refund_queue"
  /\ RefundQuota(req[r].c, 1, ok)
  /\ req' = [req EXCEPT ![r] =
       [@ EXCEPT !.pc = "upd_get",
                 !.net = @ - RefundDrop(req[r].c, 1, ok),
                 !.refunds = Append(@, 1),
                 !.rfail = @ \/ ~ok]]
  /\ UNCHANGED <<week, rec, batch, files, queueVars, wk>>

UpdateTranslateStatusMessageOnly(snap, cur, status, err) ==
  [snap EXCEPT !.ex = TRUE,
               !.err = IF err # "none" THEN err ELSE @,
               !.ttl = cur.ex /\ cur.ttl]

UpdateTranslateStatusNoMessage(snap, cur, status, err) ==
  [snap EXCEPT !.ex = TRUE, !.status = status,
               !.done = IF status = "completed" THEN TRUE ELSE @,
               !.ttl = cur.ex /\ cur.ttl]

\* services/translate.py update_translate_status: the record written by
\* redis.set(key, ..., keepttl=True), from the metadata read (snap) and the
\* key as it is now (cur); err = "none" is error_message=None
UpdateTranslateStatus(snap, cur, status, err) ==
  [snap EXCEPT !.ex = TRUE, !.status = status,
               !.err = IF err # "none" THEN err ELSE @,
               !.done = IF status = "completed" THEN TRUE ELSE @,
               !.ttl = cur.ex /\ cur.ttl]

\* the HTTP status of POST /translate once the queueing failure is handled
AfterUpdate(q) ==
  AfterChild([q EXCEPT !.resp = IF q.kind = "translate" THEN 503 ELSE @])

\* update_translate_status(translate_id, "failed", msg): redis.get; the
\* TranslateNotFoundError of a missing key and an error of the store (ok =
\* FALSE) are caught and logged by the route
StatusGet(r, ok) ==
  /\ req[r].pc = "upd_get"
  /\ req' = [req EXCEPT ![r] =
       IF ok /\ rec[<<r, req[r].i>>].ex
         THEN [@ EXCEPT !.pc = "upd_set", !.snap = rec[<<r, req[r].i>>]]
         ELSE AfterUpdate([@ EXCEPT !.uf = @ \cup {req[r].i}])]
  /\ UNCHANGED <<storeVars, queueVars, wk>>
  /\ qlog' = NoLog

\* update_translate_status: redis.set(..., keepttl=True); ok = FALSE: raised
StatusSet(r, ok) ==
  /\ req[r].pc = "upd_set"
  /\ rec' = IF ok
              THEN [rec EXCEPT ![<<r, req[r].i>>] =
                      UpdateTranslateStatus(req[r].snap, @, "failed", MSG_QUEUE)]
              ELSE rec
  /\ req' = [req EXCEPT ![r] =
       AfterUpdate([@ EXCEPT !.snap = NoRec,
                             !.uf = IF ok THEN @ ELSE @ \cup {req[r].i}])]
  /\ UNCHANGED <<week, quota, batch, files, queueVars, wk>>
  /\ qlog' = NoLog

BatchRefundCountWhole(failed_count, image_count) ==
  IF failed_count > 0 THEN image_count ELSE 0

\* routes/batch.py after the enqueue loop: the count refunded (0: no refund)
BatchRefundCount(failed_count, image_count) ==
  IF failed_count = image_count THEN image_count
  ELSE IF failed_count > 0 THEN failed_count
  ELSE 0

BatchResponseCreated(failed_count, image_count) == 201

\* routes/batch.py after the enqueue loop: the HTTP status
BatchResponse(failed_count, image_count) ==
  IF failed_count = image_count THEN 503 ELSE 201

\* routes/batch.py: the end of create_batch (lines 99-118)
Final(r, ok) ==
  /\ req[r].pc = "final"
  /\ LET k == BatchRefundCount(req[r].failed, req[r].n)
     IN /\ IF k > 0
             THEN RefundQuota(req[r].c, k, ok)
             ELSE ok /\ quota' = quota /\ qlog' = NoLog
        /\ req' = [req EXCEPT ![r] =
             [@ EXCEPT !.pc = "done",
                       !.resp = BatchResponse(req[r].failed, req[r].n),
                       !.net = IF k > 0 THEN @ - RefundDrop(req[r].c, k, ok) ELSE @,
                       !.refunds = IF k > 0 THEN Append(@, k) ELSE @,
                       !.rfail = @ \/ ~ok]]
  /\ UNCHANGED <<week, rec, batch, files, queueVars, wk>>

(***************************************************************************)
(* The clock.  A quota key's expiry is the Monday 00:00 UTC that ends its  *)
(* week (EXPIRE seconds-until-next-Monday), so when the week changes the   *)
(* keys of the ended week that carry an expiry are gone; a key without     *)
(* expiry stays.                                                           *)
(***************************************************************************)
ExpireAtMonday(q) == IF q.ex /\ q.ttl THEN NoKey ELSE q

NextWeek ==
  /\ week < MaxWeek
  /\ week' = week + 1
  /\ quota' = [c \in Clients |-> [quota[c] EXCEPT ![week] = ExpireAtMonday(@)]]
  /\ qlog' = NoLog
  /\ UNCHANGED <<rec, batch, files, queueVars, req, wk>>

\* no call of translate_image in progress (see the pipeline below)
NoPipe ==
  [pc |-> "idle", nt |-> 0, nb |-> 0, bub |-> {}, img |-> "none", log |-> <<>>,
   bupd |-> <<>>, regs |-> <<>>]

\* Python's None where a BBox may stand (no BBox has a negative coordinate)
None == [x1 |-> -1, y1 |-> -1, x2 |-> -1, y2 |-> -1]

\* inpainting state of a worker: the inputs and what was computed from them
NoInpaint ==
  [pc |-> "idle", size |-> <<0, 0>>, text_regions |-> <<>>,
   bubble_bboxes |-> <<>>, text |-> 0, found |-> None,
   bubble_regions |-> <<>>, free_regions |-> <<>>, updated |-> <<>>]

\* translation state of a worker: the boxes given, the items returned by
\* the backend, the number of backend calls and the results
NoTranslate ==
  [pc |-> "idle", bboxes |-> <<>>, key |-> FALSE, original_indices |-> <<>>,
   raw |-> <<>>, calls |-> 0, res |-> <<>>]

\* detection state of a worker: the loop variable, the calls made, the
\* sleeps taken, the exceptions caught and how detect ended
NoDetect ==
  [pc |-> "idle", max_retries |-> 0, attempt |-> 0, calls |-> 0,
   sleeps |-> <<>>, errors |-> <<>>, last |-> "none", exc |-> "none",
   cause |-> "none"]

\* a worker process holding no task
IdleWorker ==
  [pc |-> "idle", tid |-> <<1, 1>>, snap |-> NoRec, st |-> "none", err |-> "none",
   url |-> FALSE, hnd |-> FALSE, soft |-> FALSE, next |-> "idle", endrec |-> "none",
   escaped |-> FALSE, writes |-> <<>>, pl |-> NoPipe, inp |-> NoInpaint,
   tr |-> NoTranslate, det |-> NoDetect]

(***************************************************************************)
(* The request layer: handlers run concurrently, one step per store or     *)
(* broker call.  The week starts with the caller's counter absent or       *)
(* already used by earlier requests.                                       *)
(***************************************************************************)
\* a quota key holding v with its expiry set (absent when nothing was used)
UsedKey(v) == IF v = 0 THEN NoKey ELSE [ex |-> TRUE, val |-> v, ttl |-> TRUE]

InitUsed == {0, WEEKLY_IMAGES - 1}

Init ==
  /\ week = 1
  /\ \E u \in [Clients -> InitUsed] :
       quota = [c \in Clients |->
                  [w \in Weeks |-> IF w = 1 THEN UsedKey(u[c]) ELSE NoKey]]
  /\ rec = [t \in Tid |-> NoRec]
  /\ batch = [r \in Reqs |-> NoBatch]
  /\ files = {}
  /\ queue = [t \in Tid |-> 0]
  /\ sent = [t \in Tid |-> 0]
  /\ delivered = [t \in Tid |-> 0]
  /\ req = [r \in Reqs |-> IdleReq]
  /\ wk = [w \in Workers |-> IdleWorker]
  /\ qlog = NoLog

Next ==
  \/ \E r \in Reqs : Start(r)
  \/ \E r \in Reqs : Consume(r)
  \/ \E r \in Reqs, ok \in BOOLEAN : CreateTranslate(r, ok)
  \/ \E r \in Reqs, ok \in BOOLEAN : CreateBatchRecord(r, ok)
  \/ \E r \in Reqs, ok \in BOOLEAN : RefundAfterCreate(r, ok)
  \/ \E r \in Reqs, ok \in BOOLEAN : Enqueue(r, ok)
  \/ \E r \in Reqs, ok \in BOOLEAN : RefundAfterQueue(r, ok)
  \/ \E r \in Reqs, ok \in BOOLEAN : StatusGet(r, ok)
  \/ \E r \in Reqs, ok \in BOOLEAN : StatusSet(r, ok)
  \/ \E r \in Reqs, ok \in BOOLEAN : Final(r, ok)
  \/ NextWeek

Spec == Init /\ [][Next]_vars


(***************************************************************************)
(* The worker: translate_job(translate_id), src/infra/workers/              *)
(* translate_job.py.  pc is the worker's position; inside _update_status   *)
(* (pc "get", "set") st, url and err are the arguments of the call, snap   *)
(* the metadata read and next the position after the call.  hnd: the task  *)
(* is inside one of its except blocks.  soft: the soft time limit of this  *)
(* execution was raised.  When the execution ends (pc "done"), endrec is   *)
(* the record's status at that moment, escaped tells whether an exception *)
(* left the task and writes lists the statuses this execution has written. *)
(***************************************************************************)
RecStatus(t) == IF rec[t].ex THEN rec[t].status ELSE "absent"

\* _update_status: the record written by redis.set(key, ..., keepttl=True)
\* from the metadata read (snap) and the key as it is now (cur); err = ""
\* or "none" (None) is falsy and stores nothing
UpdateStatus(snap, cur, status, url, err) ==
  [snap EXCEPT !.ex = TRUE, !.status = status,
               !.url = IF url THEN TRUE ELSE @,
               !.err = IF err \notin {"none", ""} THEN err ELSE @,
               !.done = IF status = "completed" THEN TRUE ELSE @,
               !.ttl = cur.ex /\ cur.ttl]

\* a call _update_status(tid, status, result_url, error_message) begins
CallUpdate(q, status, url, err, next) ==
  [q EXCEPT !.pc = "get", !.st = status, !.url = url, !.err = err,
            !.next = next, !.snap = NoRec]

\* an exception raised in the try body enters an except block that calls
\* _update_status(tid, "failed", error_message=msg) and returns
EnterHandler(q, msg) ==
  CallUpdate([q EXCEPT !.hnd = TRUE], "failed", FALSE, msg, "ret")

\* the broker hands a task message of tid to an idle worker process, which
\* starts translate_job(tid): _update_status(tid, "processing")
Deliver(w, t) ==
  /\ wk[w].pc \in {"idle", "done"}
  /\ queue[t] > 0
  /\ queue' = [queue EXCEPT ![t] = @ - 1]
  /\ delivered' = [delivered EXCEPT ![t] = @ + 1]
  /\ wk' = [wk EXCEPT ![w] =
       CallUpdate([IdleWorker EXCEPT !.tid = t], "processing", FALSE, "none", "image")]
  /\ UNCHANGED <<storeVars, sent, req>>
  /\ qlog' = NoLog

\* the broker delivers a task message again (at-least-once delivery: a message
\* not acknowledged in time, or restored after a lost connection)
Redeliver(t) ==
  /\ delivered[t] >= 1
  /\ delivered[t] + queue[t] < MaxDeliver
  /\ queue' = [queue EXCEPT ![t] = @ + 1]
  /\ UNCHANGED <<storeVars, sent, delivered, req, wk>>
  /\ qlog' = NoLog

\* _update_status: data = redis.get(key); if not data: return
UpdateGet(w) ==
  /\ wk[w].pc = "get"
  /\ wk' = [wk EXCEPT ![w] =
       IF rec[wk[w].tid].ex
         THEN [@ EXCEPT !.pc = "set", !.snap = rec[wk[w].tid]]
         ELSE [@ EXCEPT !.pc = wk[w].next]]
  /\ UNCHANGED <<storeVars, queueVars, req>>
  /\ qlog' = NoLog

\* _update_status: redis.set(key, json.dumps(metadata), keepttl=True)
UpdateSet(w) ==
  /\ wk[w].pc = "set"
  /\ rec' = [rec EXCEPT ![wk[w].tid] =
       UpdateStatus(wk[w].snap, @, wk[w].st, wk[w].url, wk[w].err)]
  /\ wk' = [wk EXCEPT ![w] = [@ EXCEPT !.pc = wk[w].next, !.snap = NoRec,
                                       !.writes = Append(@, wk[w].st)]]
  /\ UNCHANGED <<week, quota, batch, files, queueVars, req>>
  /\ qlog' = NoLog

\* translate_job: image_path = _get_image_path(tid); not found (the record,
\* the upload record or the file is missing): _update_status(failed) and return
GetImagePath(w, found) ==
  /\ wk[w].pc = "image"
  /\ found => rec[wk[w].tid].ex
  /\ wk' = [wk EXCEPT ![w] =
       IF found THEN [@ EXCEPT !.pc = "pipeline"]
                ELSE CallUpdate(@, "failed", FALSE, MSG_NOIMAGE, "ret")]
  /\ UNCHANGED <<storeVars, queueVars, req>>
  /\ qlog' = NoLog

\* translate_job: result_image = translate_image(image_path); msg = "none":
\* it returned; otherwise it raised NanoBananaError or another Exception whose
\* str() is msg (possibly empty)
TranslateImage(w, msg) ==
  /\ wk[w].pc = "pipeline"
  /\ wk' = [wk EXCEPT ![w] =
       IF msg = "none" THEN [@ EXCEPT !.pc = "save"] ELSE EnterHandler(@, msg)]
  /\ UNCHANGED <<storeVars, queueVars, req>>
  /\ qlog' = NoLog

AfterSaveIgnoresFailure(q, ok) ==
  CallUpdate(q, "completed", TRUE, "none", "ret")

\* translate_job lines 104-111: after result_image.save returned,
\* _update_status(tid, "completed", result_url=...); when it raised
\* (ok = FALSE) "except Exception" is entered instead
AfterSave(q, ok) ==
  IF ok THEN CallUpdate(q, "completed", TRUE, "none", "ret")
        ELSE EnterHandler(q, "save error")

\* translate_job: result_image.save(result/{tid}_result.png), then
\* _update_status(tid, "completed", result_url=...); ok = FALSE: saving raised
SaveResult(w, ok) ==
  /\ wk[w].pc = "save"
  /\ files' = IF ok THEN files \cup {wk[w].tid} ELSE files
  /\ wk' = [wk EXCEPT ![w] = AfterSave(@, ok)]
  /\ UNCHANGED <<week, quota, rec, batch, queueVars, req>>
  /\ qlog' = NoLog

\* translate_job: logger.info and the return statement after _update_status
Return(w) ==
  /\ wk[w].pc = "ret"
  /\ wk' = [wk EXCEPT ![w] =
       [@ EXCEPT !.pc = "done", !.endrec = RecStatus(wk[w].tid)]]
  /\ UNCHANGED <<storeVars, queueVars, req>>
  /\ qlog' = NoLog

\* soft_time_limit=300: Celery raises SoftTimeLimitExceeded in the task,
\* wherever it is.  In the try body "except SoftTimeLimitExceeded" catches it
\* and calls _update_status(failed, "처리 시간 초과"); inside an except block
\* nothing catches it and it leaves the task.
SoftTimeLimit(w) ==
  /\ wk[w].pc \notin {"idle", "done"}
  /\ ~wk[w].soft
  /\ wk' = [wk EXCEPT ![w] =
       IF wk[w].hnd
         THEN [@ EXCEPT !.soft = TRUE, !.pc = "done", !.escaped = TRUE,
                        !.endrec = RecStatus(wk[w].tid)]
         ELSE EnterHandler([@ EXCEPT !.soft = TRUE], MSG_TIMEOUT)]
  /\ UNCHANGED <<storeVars, queueVars, req>>
  /\ qlog' = NoLog

\* the key translate:{tid} reaches its expiry (TTL.DATA after its creation)
ExpireRecord(t) ==
  /\ rec[t].ex /\ rec[t].ttl
  /\ rec' = [rec EXCEPT ![t] = NoRec]
  /\ UNCHANGED <<week, quota, batch, files, queueVars, req, wk>>
  /\ qlog' = NoLog

(***************************************************************************)
(* The worker layer, started from the state a successful POST /translate   *)
(* leaves: one reserved unit, the pending record, one task message.        *)
(***************************************************************************)
DoneTranslate ==
  [IdleReq EXCEPT !.pc = "done", !.kind = "translate", !.n = 1, !.i = 1,
                  !.ups = <<TRUE>>,
                  !.resp = 201, !.net = 1, !.enq = 1, !.rweek = 1]

InitWorker ==
  /\ week = 1
  /\ quota = [c \in Clients |-> [w \in Weeks |-> IF w = 1 THEN UsedKey(1) ELSE NoKey]]
  /\ rec = [t \in Tid |-> IF t = <<1, 1>> THEN PendingRec ELSE NoRec]
  /\ batch = [r \in Reqs |-> NoBatch]
  /\ files = {}
  /\ queue = [t \in Tid |-> IF t = <<1, 1>> THEN 1 ELSE 0]
  /\ sent = [t \in Tid |-> IF t = <<1, 1>> THEN 1 ELSE 0]
  /\ delivered = [t \in Tid |-> 0]
  /\ req = [r \in Reqs |-> IF r = 1 THEN DoneTranslate ELSE IdleReq]
  /\ wk = [w \in Workers |-> IdleWorker]
  /\ qlog = NoLog

PipelineErrors == {"", "pipeline error"}

NextWorker ==
  \/ \E w \in Workers, t \in Tid : Deliver(w, t)
  \/ \E t \in Tid : Redeliver(t)
  \/ \E w \in Workers : UpdateGet(w)
  \/ \E w \in Workers : UpdateSet(w)
  \/ \E w \in Workers, found \in BOOLEAN : GetImagePath(w, found)
  \/ \E w \in Workers, msg \in {"none"} \cup PipelineErrors : TranslateImage(w, msg)
  \/ \E w \in Workers, ok \in BOOLEAN : SaveResult(w, ok)
  \/ \E w \in Workers : Return(w)
  \/ \E w \in Workers : SoftTimeLimit(w)
  \/ \E t \in Tid : ExpireRecord(t)

SpecWorker == InitWorker /\ [][NextWorker]_vars

(***************************************************************************)
(* GET /batch/{batch_id}: services/batch.py get_batch.  The batch record   *)
(* is read first, then each child's TranslateRecord in turn (get_translate *)
(* is one redis.get), so workers and expiry may act between two reads.     *)
(***************************************************************************)
MSG_NOMETA == "translate metadata not found"

ComputeBatchStatusAnyCompleted(statuses) ==
  IF statuses \cap {"pending", "processing"} # {} THEN "processing"
  ELSE IF "completed" \in statuses THEN "completed"
  ELSE IF statuses = {"failed"} THEN "failed"
  ELSE "partial_failure"

\* _compute_batch_status, from the set of the images' statuses
ComputeBatchStatus(statuses) ==
  IF statuses \cap {"pending", "processing"} # {} THEN "processing"
  ELSE IF statuses = {"completed"} THEN "completed"
  ELSE IF statuses = {"failed"} THEN "failed"
  ELSE "partial_failure"

\* get_batch: the BatchImageEntry built for a child from get_translate's
\* result (cur: the key as it is now); seen is the stored status read
ImageEntry(cur) ==
  IF cur.ex
    THEN [status |-> cur.status, err |-> cur.err, url |-> cur.url, seen |-> cur.status]
    ELSE [status |-> "failed", err |-> MSG_NOMETA, url |-> FALSE, seen |-> "absent"]

\* the statuses of the entries of a response
StatusesOf(images) == {images[k].status : k \in 1..Len(images)}

\* get_batch: redis.get(batch:{id}); None: the route answers 404
GetBatchStart(r, b) ==
  /\ req[r].pc = "idle"
  /\ req' = [req EXCEPT ![r] =
       IF batch[b].ex
         THEN [@ EXCEPT !.pc = "gb_read", !.kind = "get_batch", !.bid = b,
                        !.n = batch[b].n, !.i = 1]
         ELSE [@ EXCEPT !.pc = "done", !.kind = "get_batch", !.bid = b,
                        !.resp = 404]]
  /\ UNCHANGED <<storeVars, queueVars, wk>>
  /\ qlog' = NoLog

BatchAfterGetPersisted(meta, status) ==
  [ex |-> TRUE, ttl |-> meta.ex /\ meta.ttl, n |-> meta.n, status |-> status]

\* get_batch lines 181-187: the value of batch:{id} once the response is
\* built; the computed status goes into the BatchResponse only, no redis.set
BatchAfterGet(meta, status) ==
  meta

\* get_batch: get_translate of child i; after the last child the response is
\* returned with status _compute_batch_status(updated_images)
GetBatchRead(r) ==
  /\ req[r].pc = "gb_read"
  /\ LET images == Append(req[r].body.images, ImageEntry(rec[<<req[r].bid, req[r].i>>]))
     IN req' = [req EXCEPT ![r] =
          IF req[r].i < req[r].n
            THEN [@ EXCEPT !.i = @ + 1, !.body = [status |-> "none", images |-> images]]
            ELSE [@ EXCEPT !.pc = "done", !.resp = 200,
                           !.body = [status |-> ComputeBatchStatus(StatusesOf(images)),
                                     images |-> images]]]
        /\ batch' = IF req[r].i < req[r].n THEN batch
                    ELSE [batch EXCEPT ![req[r].bid] =
                           BatchAfterGet(@, ComputeBatchStatus(StatusesOf(images)))]
  /\ UNCHANGED <<week, quota, rec, files, queueVars, wk>>
  /\ qlog' = NoLog

\* the key batch:{id} reaches its expiry.  It was SET with ex=TTL.DATA after
\* its children were SET with the same duration, so its expiry is not before
\* theirs.
ExpireBatch(b) ==
  /\ batch[b].ex /\ batch[b].ttl
  /\ \A i \in 1..batch[b].n : ~(rec[<<b, i>>].ex /\ rec[<<b, i>>].ttl)
  /\ batch' = [batch EXCEPT ![b] = NoBatch]
  /\ UNCHANGED <<week, quota, rec, files, queueVars, req, wk>>
  /\ qlog' = NoLog

(***************************************************************************)
(* Workers, expiry and GET /batch, started from the state a successful     *)
(* POST /batch of MaxBatch images leaves: the reserved units, the pending  *)
(* records, the batch record and one task message per child.               *)
(***************************************************************************)
DoneBatch ==
  [IdleReq EXCEPT !.pc = "done", !.kind = "batch", !.n = MaxBatch, !.i = MaxBatch,
                  !.ups = [k \in 1..MaxBatch |-> TRUE],
                  !.resp = 201, !.net = MaxBatch, !.enq = MaxBatch, !.rweek = 1,
                  !.body = BatchCreated(MaxBatch)]

InitBatch ==
  /\ week = 1
  /\ quota = [c \in Clients |->
                [w \in Weeks |-> IF w = 1 THEN UsedKey(MaxBatch) ELSE NoKey]]
  /\ rec = [t \in Tid |-> IF t[1] = 1 THEN PendingRec ELSE NoRec]
  /\ batch = [r \in Reqs |->
                IF r = 1 THEN [ex |-> TRUE, ttl |-> TRUE, n |-> MaxBatch] ELSE NoBatch]
  /\ files = {}
  /\ queue = [t \in Tid |-> IF t[1] = 1 THEN 1 ELSE 0]
  /\ sent = [t \in Tid |-> IF t[1] = 1 THEN 1 ELSE 0]
  /\ delivered = [t \in Tid |-> 0]
  /\ req = [r \in Reqs |-> IF r = 1 THEN DoneBatch ELSE IdleReq]
  /\ wk = [w \in Workers |-> IdleWorker]
  /\ qlog = NoLog

NextBatch ==
  \/ \E w \in Workers, t \in Tid : Deliver(w, t)
  \/ \E w \in Workers : UpdateGet(w)
  \/ \E w \in Workers : UpdateSet(w)
  \/ \E w \in Workers, found \in BOOLEAN : GetImagePath(w, found)
  \/ \E w \in Workers, msg \in {"none"} \cup PipelineErrors : TranslateImage(w, msg)
  \/ \E w \in Workers, ok \in BOOLEAN : SaveResult(w, ok)
  \/ \E w \in Workers : Return(w)
  \/ \E t \in Tid : ExpireRecord(t)
  \/ \E b \in Reqs : ExpireBatch(b)
  \/ \E r \in Reqs, b \in Reqs : GetBatchStart(r, b)
  \/ \E r \in Reqs : GetBatchRead(r)

SpecBatch == InitBatch /\ [][NextBatch]_vars

(***************************************************************************)
(* A client polling GET /batch/{id} of one batch, one request after the    *)
(* other, while one worker process executes the tasks and the broker may   *)
(* deliver a task again.                                                   *)
(***************************************************************************)
\* routes/batch.py get_batch: the next GET /batch/{id} of the client, sent
\* after the previous one was answered 200; the handler keeps nothing of
\* the previous request
GetBatchAgain(r) ==
  /\ req[r].pc = "done" /\ req[r].kind = "get_batch" /\ req[r].resp = 200
  /\ req' = [req EXCEPT ![r] = [IdleReq EXCEPT !.last = req[r].body.status]]
  /\ UNCHANGED <<storeVars, queueVars, wk>>
  /\ qlog' = NoLog

Polled == 1

NextPoll ==
  \/ \E t \in Tid : Deliver(1, t)
  \/ \E t \in Tid : Redeliver(t)
  \/ UpdateGet(1)
  \/ UpdateSet(1)
  \/ \E found \in BOOLEAN : GetImagePath(1, found)
  \/ \E msg \in {"none", "pipeline error"} : TranslateImage(1, msg)
  \/ \E ok \in BOOLEAN : SaveResult(1, ok)
  \/ Return(1)
  \/ \E r \in Reqs : GetBatchStart(r, Polled)
  \/ \E r \in Reqs : GetBatchRead(r)
  \/ \E r \in Reqs : GetBatchAgain(r)

SpecPoll == InitBatch /\ [][NextPoll]_vars

(***************************************************************************)
(* services/pipeline.py translate_image(image_path), with the stages of    *)
(* RoutedInpainting.inpaint (services/inpainting/inpainter.py).  The call  *)
(* runs in the worker's thread, one statement after the other.  pl.pc is   *)
(* the statement reached, nt the number of text regions detected, bub the  *)
(* regions classified as speech bubbles, img the working image ("bgr":     *)
(* the pixels read from image_path, "cleaned": after the bubble cleaner,   *)
(* "restored": after cleaner and restorer) and log the stage calls made so *)
(* far, each with the image and the regions passed and how it ended.       *)
(***************************************************************************)
MaxTexts == 2
MaxBubbles == 2

StageAfterTranslationFirst(stage) ==
  CASE stage = "detection" -> "load"
    [] stage = "load" -> "translation"
    [] stage = "translation" -> "classification"
    [] stage = "classification" -> "bubble_cleaning"
    [] stage = "bubble_cleaning" -> "background_restoration"
    [] stage = "background_restoration" -> "rendering"
    [] stage = "rendering" -> "returned"

\* translate_image lines 51-76, inpaint lines 33-41: the statement reached
\* when a stage has returned
StageAfter(stage) ==
  CASE stage = "detection" -> "load"
    [] stage = "load" -> "classification"
    [] stage = "classification" -> "bubble_cleaning"
    [] stage = "bubble_cleaning" -> "background_restoration"
    [] stage = "background_restoration" -> "translation"
    [] stage = "translation" -> "rendering"
    [] stage = "rendering" -> "returned"

\* a stage is called with an image and regions; it returns (ok) or raises,
\* and an exception leaves translate_image (nothing in it catches one)
Called(p, stage, image, regions, ok) ==
  [p EXCEPT !.log = Append(@, [stage |-> stage, image |-> image,
                               regions |-> regions,
                               out |-> IF ok THEN "returned" ELSE "raised"]),
            !.pc = IF ok THEN StageAfter(stage) ELSE "raised"]

\* translate_image(image_path) is called
TranslateImageCall(w) ==
  /\ wk[w].pl.pc = "idle"
  /\ wk' = [wk EXCEPT ![w].pl = [NoPipe EXCEPT !.pc = "detection"]]
  /\ UNCHANGED <<storeVars, queueVars, req>>
  /\ qlog' = NoLog

NothingDetected(nt, nb) ==
  nt = 0 /\ nb = 0

\* line 55: if not text_regions
NoTextRegions(nt, nb) ==
  nt = 0

\* lines 51-55: get_detection().detect(image_path) finds nt text regions and
\* nb bubbles; with no text region the original image is opened and no
\* other stage runs
Detect(w, nt, nb, ok) ==
  /\ wk[w].pl.pc = "detection"
  /\ LET p == Called(wk[w].pl, "detection", "path", {}, ok)
     IN wk' = [wk EXCEPT ![w].pl =
          IF ok /\ NoTextRegions(nt, nb)
            THEN [p EXCEPT !.pc = "open_original", !.nt = nt, !.nb = nb]
          ELSE IF ok THEN [p EXCEPT !.nt = nt, !.nb = nb]
          ELSE p]
  /\ UNCHANGED <<storeVars, queueVars, req>>
  /\ qlog' = NoLog

\* lines 56-57: with Image.open(image_path) as img: return img.convert("RGB");
\* a file that cannot be opened raises
OpenOriginal(w, ok) ==
  /\ wk[w].pl.pc = "open_original"
  /\ wk' = [wk EXCEPT ![w].pl =
       IF ok THEN [@ EXCEPT !.pc = "returned", !.img = "original"]
             ELSE [@ EXCEPT !.pc = "raised"]]
  /\ UNCHANGED <<storeVars, queueVars, req>>
  /\ qlog' = NoLog

\* lines 60-62: image_bgr = cv2.imread(image_path); None: PipelineError
Load(w, ok) ==
  /\ wk[w].pl.pc = "load"
  /\ wk' = [wk EXCEPT ![w].pl =
       IF ok THEN [@ EXCEPT !.pc = StageAfter("load"), !.img = "bgr"]
             ELSE [@ EXCEPT !.pc = "raised"]]
  /\ UNCHANGED <<storeVars, queueVars, req>>
  /\ qlog' = NoLog

\* inpaint line 33: classifier.classify(text_regions, bubble_bboxes); bub are
\* the text regions it puts into bubble_regions
Classify(w, bub, ok) ==
  /\ wk[w].pl.pc = "classification"
  /\ bub \subseteq 1..wk[w].pl.nt
  /\ LET p == Called(wk[w].pl, "classification", "none", 1..wk[w].pl.nt, ok)
     IN wk' = [wk EXCEPT ![w].pl = IF ok THEN [p EXCEPT !.bub = bub] ELSE p]
  /\ UNCHANGED <<storeVars, queueVars, req>>
  /\ qlog' = NoLog

\* build_text_regions (pipeline.py 26-27): the text regions in detection
\* order, region k carrying index k
TextRegions(nt) == [k \in 1..nt |-> k]

\* classifier.py 26-37: the regions of one list, in input order
RegionsIn(nt, S) == SelectSeq(TextRegions(nt), LAMBDA i : i \in S)

\* list.sort(key=lambda r: r.index): the last index goes to its place in
\* the ascending list of the others
RECURSIVE SortByIndex(_)
SortByIndex(s) ==
  IF s = <<>> THEN <<>>
  ELSE LET sorted == SortByIndex(SubSeq(s, 1, Len(s) - 1))
           i == s[Len(s)]
       IN SelectSeq(sorted, LAMBDA j : j <= i) \o <<i>>
            \o SelectSeq(sorted, LAMBDA j : j > i)

AllRegionsUnsorted(bubble_updated, free_updated) ==
  bubble_updated \o free_updated

\* inpaint lines 38-39: all_regions = bubble_updated + free_updated, sorted
\* by index
AllRegions(bubble_updated, free_updated) ==
  SortByIndex(bubble_updated \o free_updated)

\* inpaint line 35: image, bubble_updated = bubble_cleaner.clean(image, bubble_regions);
\* the cleaner returns one updated region per region it was given
\* (bubble_cleaner.py 28-48: every bubble region has a bubble_bbox)
Clean(w, ok) ==
  /\ wk[w].pl.pc = "bubble_cleaning"
  /\ LET p == Called(wk[w].pl, "bubble_cleaning", wk[w].pl.img, wk[w].pl.bub, ok)
     IN wk' = [wk EXCEPT ![w].pl =
          IF ok THEN [p EXCEPT !.img = "cleaned",
                               !.bupd = RegionsIn(p.nt, p.bub)]
                ELSE p]
  /\ UNCHANGED <<storeVars, queueVars, req>>
  /\ qlog' = NoLog

\* inpaint lines 36-41: image, free_updated = background_restorer.restore(image,
\* free_regions), then the two lists are joined and sorted; the restorer
\* returns the regions whose clipped text_bbox has an area (kept) and leaves
\* the others out (background_restorer.py 41-44)
Restore(w, kept, ok) ==
  /\ wk[w].pl.pc = "background_restoration"
  /\ kept \subseteq (1..wk[w].pl.nt) \ wk[w].pl.bub
  /\ LET p == Called(wk[w].pl, "background_restoration", wk[w].pl.img,
                     (1..wk[w].pl.nt) \ wk[w].pl.bub, ok)
     IN wk' = [wk EXCEPT ![w].pl =
          IF ok THEN [p EXCEPT !.img = IF @ = "cleaned" THEN "restored"
                                                      ELSE "restored only",
                               !.regs = AllRegions(p.bupd, RegionsIn(p.nt, kept))]
                ELSE p]
  /\ UNCHANGED <<storeVars, queueVars, req>>
  /\ qlog' = NoLog

\* lines 68-69: get_translation().translate(image_path, text_bboxes)
Translate(w, ok) ==
  /\ wk[w].pl.pc = "translation"
  /\ wk' = [wk EXCEPT ![w].pl =
       Called(@, "translation", "path", 1..wk[w].pl.nt, ok)]
  /\ UNCHANGED <<storeVars, queueVars, req>>
  /\ qlog' = NoLog

\* line 73: render_translations(clean_image, updated_regions, translations)
Render(w, ok) ==
  /\ wk[w].pl.pc = "rendering"
  /\ wk' = [wk EXCEPT ![w].pl =
       Called(@, "rendering", wk[w].pl.img,
              {wk[w].pl.regs[k] : k \in 1..Len(wk[w].pl.regs)}, ok)]
  /\ UNCHANGED <<storeVars, queueVars, req>>
  /\ qlog' = NoLog

InitPipeline ==
  /\ week = 1
  /\ quota = [c \in Clients |-> [w \in Weeks |-> NoKey]]
  /\ rec = [t \in Tid |-> NoRec]
  /\ batch = [r \in Reqs |-> NoBatch]
  /\ files = {}
  /\ queue = [t \in Tid |-> 0]
  /\ sent = [t \in Tid |-> 0]
  /\ delivered = [t \in Tid |-> 0]
  /\ req = [r \in Reqs |-> IdleReq]
  /\ wk = [w \in Workers |-> IdleWorker]
  /\ qlog = NoLog

NextPipeline ==
  \/ \E w \in Workers : TranslateImageCall(w)
  \/ \E w \in Workers, nt \in 0..MaxTexts, nb \in 0..MaxBubbles, ok \in BOOLEAN :
       Detect(w, nt, nb, ok)
  \/ \E w \in Workers, ok \in BOOLEAN : OpenOriginal(w, ok)
  \/ \E w \in Workers, ok \in BOOLEAN : Load(w, ok)
  \/ \E w \in Workers, bub \in SUBSET (1..MaxTexts), ok \in BOOLEAN : Classify(w, bub, ok)
  \/ \E w \in Workers, ok \in BOOLEAN : Clean(w, ok)
  \/ \E w \in Workers, kept \in SUBSET (1..MaxTexts), ok \in BOOLEAN :
       Restore(w, kept, ok)
  \/ \E w \in Workers, ok \in BOOLEAN : Translate(w, ok)
  \/ \E w \in Workers, ok \in BOOLEAN : Render(w, ok)

SpecPipeline == InitPipeline /\ [][NextPipeline]_vars

\* ---------------------------------------------------------------------
\* Inpainting geometry: BBox, overlap ratio, find_bubble, classify and the
\* bubble cleaner's inpaint box. Coordinates are pixels; the boxes drawn
\* below have coordinates that are multiples of 40, for which the centre,
\* 0.65 of a half width and 0.2 of a width are whole numbers.
\* ---------------------------------------------------------------------
INSCRIBED_RATIO_NUM == 13
INSCRIBED_RATIO_DEN == 20
OVERLAP_THRESHOLD_NUM == 1
OVERLAP_THRESHOLD_DEN == 2
PADDING_RATIO_NUM == 1
PADDING_RATIO_DEN == 5

Max2(a, b) == IF a >= b THEN a ELSE b
Min2(a, b) == IF a <= b THEN a ELSE b

\* BBox(...) with validate_and_normalize: inverted coordinates are swapped,
\* negative ones become 0
BBox(x1, y1, x2, y2) ==
  [x1 |-> Max2(0, Min2(x1, x2)), y1 |-> Max2(0, Min2(y1, y2)),
   x2 |-> Max2(0, Max2(x1, x2)), y2 |-> Max2(0, Max2(y1, y2))]

Width(b) == b.x2 - b.x1
Height(b) == b.y2 - b.y1

\* calc_overlap_ratio as a fraction num/den with den > 0
calc_overlap_ratio(box_a, box_b) ==
  LET area_a == Width(box_a) * Height(box_a)
      ix1 == Max2(box_a.x1, box_b.x1)
      iy1 == Max2(box_a.y1, box_b.y1)
      ix2 == Min2(box_a.x2, box_b.x2)
      iy2 == Min2(box_a.y2, box_b.y2)
  IN IF area_a <= 0 THEN [num |-> 0, den |-> 1]
     ELSE IF ix1 >= ix2 \/ iy1 >= iy2 THEN [num |-> 0, den |-> 1]
     ELSE [num |-> (ix2 - ix1) * (iy2 - iy1), den |-> area_a]

ReachesThreshold(overlap) ==
  overlap.num * OVERLAP_THRESHOLD_DEN >= OVERLAP_THRESHOLD_NUM * overlap.den

\* find_bubble line 61: best_overlap > OVERLAP_THRESHOLD
AboveThreshold(overlap) ==
  overlap.num * OVERLAP_THRESHOLD_DEN > OVERLAP_THRESHOLD_NUM * overlap.den

\* find_bubble lines 54-59: the loop over bubbles[k..], acc = (best, best_overlap)
RECURSIVE BestFrom(_, _, _, _)
BestFrom(text_bbox, bubbles, k, acc) ==
  IF k > Len(bubbles) THEN acc
  ELSE LET overlap == calc_overlap_ratio(text_bbox, bubbles[k])
       IN BestFrom(text_bbox, bubbles, k + 1,
            IF overlap.num * acc.best_overlap.den
                 > acc.best_overlap.num * overlap.den
            THEN [best |-> bubbles[k], best_overlap |-> overlap]
            ELSE acc)

find_bubble(text_bbox, bubbles) ==
  LET r == BestFrom(text_bbox, bubbles, 1,
                    [best |-> None, best_overlap |-> [num |-> 0, den |-> 1]])
  IN IF AboveThreshold(r.best_overlap) THEN r.best ELSE None

\* TextRegion(index, text_bbox, bubble_bbox, inpaint_bbox)
TextRegion(index, text_bbox, bubble_bbox, inpaint_bbox) ==
  [index |-> index, text_bbox |-> text_bbox, bubble_bbox |-> bubble_bbox,
   inpaint_bbox |-> inpaint_bbox]

PutFirst(list, region) == <<region>> \o list

\* classify lines 28-37: list.append(TextRegion(...))
Put(list, region) ==
  Append(list, region)

\* classify lines 23-39: the loop over text_regions[k..]
RECURSIVE ClassifyFrom(_, _, _, _)
ClassifyFrom(text_regions, bubble_bboxes, k, acc) ==
  IF k > Len(text_regions) THEN acc
  ELSE LET region == text_regions[k]
           bubble == find_bubble(region.text_bbox, bubble_bboxes)
       IN ClassifyFrom(text_regions, bubble_bboxes, k + 1,
            IF bubble # None
            THEN [acc EXCEPT !.bubble_regions =
                    Put(@, TextRegion(region.index, region.text_bbox, bubble, None))]
            ELSE [acc EXCEPT !.free_regions =
                    Put(@, TextRegion(region.index, region.text_bbox, None, None))])

classify(text_regions, bubble_bboxes) ==
  ClassifyFrom(text_regions, bubble_bboxes, 1,
               [bubble_regions |-> <<>>, free_regions |-> <<>>])

clip_to_bounds(bbox, width, height) ==
  BBox(Min2(width, Max2(0, bbox.x1)), Min2(height, Max2(0, bbox.y1)),
       Min2(width, Max2(0, bbox.x2)), Min2(height, Max2(0, bbox.y2)))

\* inscribed_rect(bubble, INSCRIBED_RATIO): hw * ratio = width * 13 / 40
inscribed_rect(bubble) ==
  LET cx == (bubble.x1 + bubble.x2) \div 2
      cy == (bubble.y1 + bubble.y2) \div 2
      rw == (Width(bubble) * INSCRIBED_RATIO_NUM) \div (2 * INSCRIBED_RATIO_DEN)
      rh == (Height(bubble) * INSCRIBED_RATIO_NUM) \div (2 * INSCRIBED_RATIO_DEN)
  IN BBox(cx - rw, cy - rh, cx + rw, cy + rh)

\* SolidFillBubbleCleaner._calc_inpaint_bbox
calc_inpaint_bbox(text, bubble, w, h) ==
  LET inscribed == inscribed_rect(bubble)
      pad_x == (Width(text) * PADDING_RATIO_NUM) \div PADDING_RATIO_DEN
      pad_y == (Height(text) * PADDING_RATIO_NUM) \div PADDING_RATIO_DEN
      bbox == BBox(Max2(text.x1 - pad_x, inscribed.x1),
                   Max2(text.y1 - pad_y, inscribed.y1),
                   Min2(text.x2 + pad_x, inscribed.x2),
                   Min2(text.y2 + pad_y, inscribed.y2))
  IN clip_to_bounds(bbox, w, h)

\* SolidFillBubbleCleaner.clean lines 28-48: the updated regions
RECURSIVE CleanFrom(_, _, _, _)
CleanFrom(regions, size, k, updated) ==
  IF k > Len(regions) THEN updated
  ELSE LET region == regions[k]
       IN CleanFrom(regions, size, k + 1,
            IF region.bubble_bbox = None THEN updated
            ELSE Append(updated,
                   TextRegion(region.index, region.text_bbox, region.bubble_bbox,
                              calc_inpaint_bbox(region.text_bbox, region.bubble_bbox,
                                                size[1], size[2]))))

\* the boxes the detection may report, and the image sizes (width, height)
TextBoxes ==
  LET xs == {0, 40, 80, 120}
  IN {BBox(a, 0, b, 40) : a \in xs, b \in xs}
BubbleBoxes ==
  LET xs == {0, 40, 80, 400}
  IN {BBox(c[1], 0, c[2], 80) : c \in {d \in xs \X xs : d[1] < d[2]}}
ImageSizes == {<<400, 80>>, <<120, 80>>}

SeqsUpTo(S, n) == UNION {[1..m -> S] : m \in 0..n}

\* find_bubble(text_regions[k].text_bbox, bubble_bboxes)
FindBubble(w, k) ==
  /\ wk[w].inp.pc = "input"
  /\ k \in 1..Len(wk[w].inp.text_regions)
  /\ wk' = [wk EXCEPT ![w].inp =
       [@ EXCEPT !.pc = "found", !.text = k,
                 !.found = find_bubble(wk[w].inp.text_regions[k].text_bbox,
                                       wk[w].inp.bubble_bboxes)]]
  /\ UNCHANGED <<storeVars, queueVars, req>>
  /\ qlog' = NoLog

\* RegionClassifier.classify(text_regions, bubble_bboxes)
ClassifyCall(w) ==
  /\ wk[w].inp.pc = "input"
  /\ LET r == classify(wk[w].inp.text_regions, wk[w].inp.bubble_bboxes)
     IN wk' = [wk EXCEPT ![w].inp =
          [@ EXCEPT !.pc = "classified",
                    !.bubble_regions = r.bubble_regions,
                    !.free_regions = r.free_regions]]
  /\ UNCHANGED <<storeVars, queueVars, req>>
  /\ qlog' = NoLog

\* SolidFillBubbleCleaner.clean(image, bubble_regions)
CleanCall(w) ==
  /\ wk[w].inp.pc = "classified"
  /\ wk' = [wk EXCEPT ![w].inp =
       [@ EXCEPT !.pc = "cleaned",
                 !.updated = CleanFrom(wk[w].inp.bubble_regions,
                                       wk[w].inp.size, 1, <<>>)]]
  /\ UNCHANGED <<storeVars, queueVars, req>>
  /\ qlog' = NoLog

\* one worker holds an image, its text regions (indexed in detection order)
\* and its bubbles
InitInpaint ==
  /\ week = 1
  /\ quota = [c \in Clients |-> [w \in Weeks |-> NoKey]]
  /\ rec = [t \in Tid |-> NoRec]
  /\ batch = [r \in Reqs |-> NoBatch]
  /\ files = {}
  /\ queue = [t \in Tid |-> 0]
  /\ sent = [t \in Tid |-> 0]
  /\ delivered = [t \in Tid |-> 0]
  /\ req = [r \in Reqs |-> IdleReq]
  /\ \E size \in ImageSizes, texts \in SeqsUpTo(TextBoxes, MaxTexts),
        bubbles \in SeqsUpTo(BubbleBoxes, MaxBubbles) :
       wk = [w \in Workers |->
              IF w = 1
              THEN [IdleWorker EXCEPT !.inp =
                     [NoInpaint EXCEPT
                        !.pc = "input", !.size = size,
                        !.text_regions =
                           [k \in 1..Len(texts) |->
                              TextRegion(k, texts[k], None, None)],
                        !.bubble_bboxes = bubbles]]
              ELSE IdleWorker]
  /\ qlog = NoLog

NextInpaint ==
  \/ \E w \in Workers, k \in 1..MaxTexts : FindBubble(w, k)
  \/ \E w \in Workers : ClassifyCall(w)
  \/ \E w \in Workers : CleanCall(w)

SpecInpaint == InitInpaint /\ [][NextInpaint]_vars

\* ---------------------------------------------------------------------
\* GeminiTranslation.translate: the crop of valid boxes, one backend call
\* and the mapping of the returned items to detection indices (0-based, as
\* in the code).
\* ---------------------------------------------------------------------
MaxItems == 2

\* BBox.is_valid
is_valid(bbox) == Width(bbox) > 0 /\ Height(bbox) > 0

\* _crop_to_parts: original_indices, the positions (from 0) of the valid boxes
RECURSIVE CropFrom(_, _, _)
CropFrom(bboxes, k, original_indices) ==
  IF k > Len(bboxes) THEN original_indices
  ELSE CropFrom(bboxes, k + 1,
         IF is_valid(bboxes[k]) THEN Append(original_indices, k - 1)
                                ELSE original_indices)

crop_to_parts(bboxes) == CropFrom(bboxes, 1, <<>>)

\* TranslationResult(index, translated)
TranslationResult(index, translated) ==
  [index |-> index, translated |-> translated]

PartsIndex(original_indices, parts_idx) ==
  parts_idx

\* _map_results line 109: original_indices[parts_idx]
OriginalIndex(original_indices, parts_idx) ==
  original_indices[parts_idx + 1]

\* results.sort(key=lambda r: r.index) is stable: the last result goes
\* behind the results whose index is not greater
RECURSIVE SortResults(_)
SortResults(results) ==
  IF results = <<>> THEN <<>>
  ELSE LET sorted == SortResults(SubSeq(results, 1, Len(results) - 1))
           r == results[Len(results)]
       IN SelectSeq(sorted, LAMBDA x : x.index <= r.index) \o <<r>>
            \o SelectSeq(sorted, LAMBDA x : x.index > r.index)

\* _map_results lines 103-114: an item that fails validation (valid = FALSE)
\* raises inside the try and is left out, as is an index out of range
RECURSIVE MapFrom(_, _, _, _)
MapFrom(raw_results, original_indices, k, results) ==
  IF k > Len(raw_results) THEN results
  ELSE LET item == raw_results[k]
       IN MapFrom(raw_results, original_indices, k + 1,
            IF item.valid /\ 0 <= item.index /\ item.index < Len(original_indices)
            THEN Append(results,
                   TranslationResult(OriginalIndex(original_indices, item.index),
                                     item.translated))
            ELSE results)

map_results(raw_results, original_indices) ==
  SortResults(MapFrom(raw_results, original_indices, 1, <<>>))

\* the items a response may hold: index, translated text, and whether the
\* item passes TranslationResult.model_validate
Translations == {"Hello", "BOOM"}
RawItems ==
  {[index |-> i, translated |-> t, valid |-> TRUE] :
     i \in (-1)..MaxTexts, t \in Translations}
  \cup {[index |-> 0, translated |-> "Hello", valid |-> FALSE]}

\* translate lines 44-54: up to the backend call
TranslateCall(w) ==
  /\ wk[w].tr.pc = "input"
  /\ LET t == wk[w].tr
         original_indices == crop_to_parts(t.bboxes)
     IN wk' = [wk EXCEPT ![w].tr =
          IF t.bboxes = <<>> THEN [t EXCEPT !.pc = "returned"]
          ELSE IF ~t.key THEN [t EXCEPT !.pc = "raised"]
          ELSE IF original_indices = <<>> THEN [t EXCEPT !.pc = "returned"]
          ELSE [t EXCEPT !.pc = "call", !.original_indices = original_indices]]
  /\ UNCHANGED <<storeVars, queueVars, req>>
  /\ qlog' = NoLog

\* translate lines 56-57: _call_gemini returns a list of items, or raises
\* (no text, no JSON, not a list, or an error of the client), then _map_results
CallGemini(w, raw, ok) ==
  /\ wk[w].tr.pc = "call"
  /\ wk' = [wk EXCEPT ![w].tr =
       IF ok THEN [@ EXCEPT !.pc = "returned", !.calls = @ + 1, !.raw = raw,
                            !.res = map_results(raw, wk[w].tr.original_indices)]
             ELSE [@ EXCEPT !.pc = "raised", !.calls = @ + 1]]
  /\ UNCHANGED <<storeVars, queueVars, req>>
  /\ qlog' = NoLog

\* one worker is given the text boxes of an image; the API key is set or not
InitTranslation ==
  /\ week = 1
  /\ quota = [c \in Clients |-> [w \in Weeks |-> NoKey]]
  /\ rec = [t \in Tid |-> NoRec]
  /\ batch = [r \in Reqs |-> NoBatch]
  /\ files = {}
  /\ queue = [t \in Tid |-> 0]
  /\ sent = [t \in Tid |-> 0]
  /\ delivered = [t \in Tid |-> 0]
  /\ req = [r \in Reqs |-> IdleReq]
  /\ \E bboxes \in SeqsUpTo(TextBoxes, MaxTexts), key \in BOOLEAN :
       wk = [w \in Workers |->
              IF w = 1
              THEN [IdleWorker EXCEPT !.tr =
                     [NoTranslate EXCEPT !.pc = "input", !.bboxes = bboxes,
                                         !.key = key]]
              ELSE IdleWorker]
  /\ qlog = NoLog

NextTranslation ==
  \/ \E w \in Workers : TranslateCall(w)
  \/ \E w \in Workers, raw \in SeqsUpTo(RawItems, MaxItems), ok \in BOOLEAN :
       CallGemini(w, raw, ok)

SpecTranslation == InitTranslation /\ [][NextTranslation]_vars

\* ---------------------------------------------------------------------
\* HFSpaceDetection.detect: the retry loop around client.predict and the
\* validation of the response.
\* ---------------------------------------------------------------------
DEFAULT_MAX_RETRIES == 3

\* the exceptions client.predict may raise
PredictErrors == {"timeout", "connection refused", "server error"}

AttemptsWithoutFirst(max_retries) ==
  max_retries

\* _call_with_retry line 43: range(1 + max_retries)
Attempts(max_retries) ==
  1 + max_retries

BackoffLinear(attempt) ==
  attempt + 1

\* _call_with_retry line 49: time.sleep(2**attempt)
Backoff(attempt) ==
  2 ^ attempt

\* detect lines 37-38: the client is built (an error of the constructor
\* leaves detect as it is) and the loop is entered
DetectCall(w, ok) ==
  /\ wk[w].det.pc = "input"
  /\ wk' = [wk EXCEPT ![w].det =
       IF ~ok THEN [@ EXCEPT !.pc = "raised", !.exc = "client error"]
       ELSE IF 0 < Attempts(@.max_retries) THEN [@ EXCEPT !.pc = "predict"]
       ELSE [@ EXCEPT !.pc = "raised", !.exc = "RuntimeError"]]
  /\ UNCHANGED <<storeVars, queueVars, req>>
  /\ qlog' = NoLog

\* lines 44-51 and 39: one client.predict call; a response is returned to
\* detect and validated, an exception is kept as last_error and the loop
\* sleeps, goes on or ends with RuntimeError from last_error
Predict(w, out) ==
  /\ wk[w].det.pc = "predict"
  /\ LET dt == [wk[w].det EXCEPT !.calls = @ + 1, !.last = out]
     IN wk' = [wk EXCEPT ![w].det =
          IF out = "response" THEN [dt EXCEPT !.pc = "returned"]
          ELSE IF out = "schema mismatch"
            THEN [dt EXCEPT !.pc = "raised", !.exc = "ValidationError"]
          ELSE IF dt.attempt < dt.max_retries
            THEN [dt EXCEPT !.pc = "sleep", !.errors = Append(@, out)]
          ELSE IF dt.attempt + 1 < Attempts(dt.max_retries)
            THEN [dt EXCEPT !.attempt = @ + 1, !.errors = Append(@, out)]
          ELSE [dt EXCEPT !.pc = "raised", !.exc = "RuntimeError",
                          !.errors = Append(@, out), !.cause = out]]
  /\ UNCHANGED <<storeVars, queueVars, req>>
  /\ qlog' = NoLog

\* line 49 and the next iteration of the loop (or its end)
Sleep(w) ==
  /\ wk[w].det.pc = "sleep"
  /\ LET dt == [wk[w].det EXCEPT !.sleeps = Append(@, Backoff(wk[w].det.attempt))]
     IN wk' = [wk EXCEPT ![w].det =
          IF dt.attempt + 1 < Attempts(dt.max_retries)
          THEN [dt EXCEPT !.pc = "predict", !.attempt = @ + 1]
          ELSE [dt EXCEPT !.pc = "raised", !.exc = "RuntimeError",
                          !.cause = dt.errors[Len(dt.errors)]]]
  /\ UNCHANGED <<storeVars, queueVars, req>>
  /\ qlog' = NoLog

\* one worker calls detect with max_retries of 0 up to the default
InitDetect ==
  /\ week = 1
  /\ quota = [c \in Clients |-> [w \in Weeks |-> NoKey]]
  /\ rec = [t \in Tid |-> NoRec]
  /\ batch = [r \in Reqs |-> NoBatch]
  /\ files = {}
  /\ queue = [t \in Tid |-> 0]
  /\ sent = [t \in Tid |-> 0]
  /\ delivered = [t \in Tid |-> 0]
  /\ req = [r \in Reqs |-> IdleReq]
  /\ \E max_retries \in 0..DEFAULT_MAX_RETRIES :
       wk = [w \in Workers |->
              IF w = 1
              THEN [IdleWorker EXCEPT !.det =
                     [NoDetect EXCEPT !.pc = "input", !.max_retries = max_retries]]
              ELSE IdleWorker]
  /\ qlog = NoLog

NextDetect ==
  \/ \E w \in Workers, ok \in BOOLEAN : DetectCall(w, ok)
  \/ \E w \in Workers,
        out \in PredictErrors \cup {"response", "schema mismatch"} : Predict(w, out)
  \/ \E w \in Workers : Sleep(w)

SpecDetect == InitDetect /\ [][NextDetect]_vars

(***************************************************************************)
(* One POST request from its arrival to the end of its tasks: the handler  *)
(* and the workers run concurrently, a worker may execute the first child  *)
(* of a batch while the handler still enqueues the next.                   *)
(***************************************************************************)
Posting == {1}

InitFlow ==
  /\ week = 1
  /\ quota = [c \in Clients |-> [w \in Weeks |-> NoKey]]
  /\ rec = [t \in Tid |-> NoRec]
  /\ batch = [r \in Reqs |-> NoBatch]
  /\ files = {}
  /\ queue = [t \in Tid |-> 0]
  /\ sent = [t \in Tid |-> 0]
  /\ delivered = [t \in Tid |-> 0]
  /\ req = [r \in Reqs |-> IdleReq]
  /\ wk = [w \in Workers |-> IdleWorker]
  /\ qlog = NoLog

NextFlow ==
  \/ \E r \in Posting : Start(r)
  \/ \E r \in Posting : Consume(r)
  \/ \E r \in Posting, ok \in BOOLEAN : CreateTranslate(r, ok)
  \/ \E r \in Posting, ok \in BOOLEAN : CreateBatchRecord(r, ok)
  \/ \E r \in Posting, ok \in BOOLEAN : RefundAfterCreate(r, ok)
  \/ \E r \in Posting, ok \in BOOLEAN : Enqueue(r, ok)
  \/ \E r \in Posting, ok \in BOOLEAN : RefundAfterQueue(r, ok)
  \/ \E r \in Posting, ok \in BOOLEAN : StatusGet(r, ok)
  \/ \E r \in Posting, ok \in BOOLEAN : StatusSet(r, ok)
  \/ \E r \in Posting, ok \in BOOLEAN : Final(r, ok)
  \/ \E w \in Workers, t \in Tid : Deliver(w, t)
  \/ \E w \in Workers : UpdateGet(w)
  \/ \E w \in Workers : UpdateSet(w)
  \/ \E w \in Workers, found \in BOOLEAN : GetImagePath(w, found)
  \/ \E w \in Workers, msg \in {"none"} \cup PipelineErrors : TranslateImage(w, msg)
  \/ \E w \in Workers, ok \in BOOLEAN : SaveResult(w, ok)
  \/ \E w \in Workers : Return(w)
  \/ \E w \in Workers : SoftTimeLimit(w)
  \/ \E t \in Tid : ExpireRecord(t)

SpecFlow == InitFlow /\ [][NextFlow]_vars

(***************************************************************************)
(* POST /erase: services/erase.py.  A translate_id is a string, modelled   *)
(* as the sequence of its characters.                                      *)
(***************************************************************************)
NL == "\n"
PREFIX == <<"t", "r", "_">>
HexChars == {"a", "b", "c", "d", "e", "f",
             "0", "1", "2", "3", "4", "5", "6", "7", "8", "9"}

Rep(ch, k) == [i \in 1..k |-> ch]

\* the translate_ids a client may send: well-formed ones, and ones with a
\* wrong prefix, wrong characters, a wrong length or something appended
EraseIds ==
  {p \o Rep(ch, k) \o x :
     p \in {PREFIX, <<>>, <<".", ".", "/">>},
     ch \in {"a", "0", "Z", "/"},
     k \in (ID_HEX_LEN - 1)..(ID_HEX_LEN + 1),
     x \in {<<>>, <<NL>>, <<NL, NL>>, <<"x">>}}

\* TranslateId.PATTERN.match(id), PATTERN = re.compile(r"^tr_[a-f0-9]{8}$"):
\* Python's "$" matches at the end of the string and also just before a
\* newline that is the last character of the string
PatternMatch(id) ==
  /\ Len(id) >= Len(PREFIX) + ID_HEX_LEN
  /\ \A k \in 1..Len(PREFIX) : id[k] = PREFIX[k]
  /\ \A k \in (Len(PREFIX) + 1)..(Len(PREFIX) + ID_HEX_LEN) : id[k] \in HexChars
  /\ \/ Len(id) = Len(PREFIX) + ID_HEX_LEN
     \/ /\ Len(id) = Len(PREFIX) + ID_HEX_LEN + 1
        /\ id[Len(id)] = NL

\* the translate_id (_generate_translate_id) of the record t
IdOf(t) ==
  PREFIX \o Rep(IF t = <<1, 1>> THEN "a" ELSE IF t = <<1, 2>> THEN "0" ELSE "b",
                ID_HEX_LEN)

\* redis.get(translate:{id}): the key with exactly that name, if any
Lookup(id) ==
  IF \E t \in Tid : IdOf(t) = id
    THEN rec[CHOOSE t \in Tid : IdOf(t) = id]
    ELSE NoRec

\* storage.exists(result/{id}_result.png)
ResultExists(id) == \E t \in files : IdOf(t) = id

\* erase_region: _validate_translate_id(translate_id), the first statement of
\* _get_result_image_path; EraseError INVALID_TRANSLATE_ID is answered 400.
\* EraseRequest declares translate_id and mask_image only: a sourceImage in
\* the body (simg) is not read by erase_region.
EraseStart(r, id, simg) ==
  /\ req[r].pc = "idle"
  /\ req' = [req EXCEPT ![r] =
       IF PatternMatch(id)
         THEN [@ EXCEPT !.kind = "erase", !.tidin = id, !.simg = simg,
                        !.pc = "er_get"]
         ELSE [@ EXCEPT !.kind = "erase", !.tidin = id, !.simg = simg,
                        !.pc = "done", !.resp = 400,
                        !.code = "INVALID_TRANSLATE_ID"]]
  /\ UNCHANGED <<storeVars, queueVars, wk>>
  /\ qlog' = NoLog

RecordCheckStatusFirst(cur) ==
  IF cur.status # "completed" THEN "TRANSLATE_NOT_COMPLETED"
  ELSE IF ~cur.ex THEN "TRANSLATE_NOT_FOUND"
  ELSE "none"

\* _get_result_image_path lines 119-131: the EraseError code raised for the
\* value read from translate:{id} ("none": no error)
RecordCheck(cur) ==
  IF ~cur.ex THEN "TRANSLATE_NOT_FOUND"
  ELSE IF cur.status # "completed" THEN "TRANSLATE_NOT_COMPLETED"
  ELSE "none"

\* EraseError.STATUS_MAP
StatusOf(code) ==
  IF code \in {"INVALID_TRANSLATE_ID", "TRANSLATE_NOT_COMPLETED"} THEN 400
  ELSE IF code \in {"TRANSLATE_NOT_FOUND", "RESULT_IMAGE_NOT_FOUND"} THEN 404
  ELSE 500

\* _get_result_image_path: redis.get and the status test
EraseGet(r) ==
  /\ req[r].pc = "er_get"
  /\ LET code == RecordCheck(Lookup(req[r].tidin))
         q == [req[r] EXCEPT !.touched = @ \cup {"redis"}]
     IN req' = [req EXCEPT ![r] =
          IF code # "none"
            THEN [q EXCEPT !.pc = "done", !.resp = StatusOf(code), !.code = code]
            ELSE [q EXCEPT !.pc = "er_file"]]
  /\ UNCHANGED <<storeVars, queueVars, wk>>
  /\ qlog' = NoLog

\* _get_result_image_path: storage.exists(result/{id}_result.png)
EraseFile(r) ==
  /\ req[r].pc = "er_file"
  /\ LET q == [req[r] EXCEPT !.touched = @ \cup {"storage"}]
     IN req' = [req EXCEPT ![r] =
          IF ResultExists(req[r].tidin)
            THEN [q EXCEPT !.pc = "er_inpaint"]
            ELSE [q EXCEPT !.pc = "done", !.resp = 404,
                           !.code = "RESULT_IMAGE_NOT_FOUND"]]
  /\ UNCHANGED <<storeVars, queueVars, wk>>
  /\ qlog' = NoLog

\* erase_region after the path is known: the image and the mask are decoded
\* (out = "mask": that raised), then backend.inpaint_mask is called (out =
\* "inpaint": it raised; "ok": 200 with the result image)
EraseInpaint(r, out) ==
  /\ req[r].pc = "er_inpaint"
  /\ req' = [req EXCEPT ![r] =
       IF out = "mask"
         THEN [@ EXCEPT !.pc = "done", !.resp = 500, !.code = "INPAINTING_FAILED"]
       ELSE IF out = "inpaint"
         THEN [@ EXCEPT !.pc = "done", !.resp = 500, !.code = "INPAINTING_FAILED",
                        !.touched = @ \cup {"inpaint"}]
       ELSE [@ EXCEPT !.pc = "done", !.resp = 200, !.touched = @ \cup {"inpaint"}]]
  /\ UNCHANGED <<storeVars, queueVars, wk>>
  /\ qlog' = NoLog

\* a record the worker completed
CompletedRec ==
  [PendingRec EXCEPT !.status = "completed", !.url = TRUE, !.done = TRUE]

\* POST /erase against a store holding no, a pending or a completed record,
\* with or without its result file (a result file outlives its record, which
\* expires)
InitErase ==
  /\ week = 1
  /\ quota = [c \in Clients |-> [w \in Weeks |-> NoKey]]
  /\ \E a \in {NoRec, PendingRec, CompletedRec}, b \in {NoRec, CompletedRec} :
       rec = [t \in Tid |-> IF t = <<1, 1>> THEN a
                            ELSE IF t = <<1, 2>> THEN b ELSE NoRec]
  /\ batch = [r \in Reqs |-> NoBatch]
  /\ files \in SUBSET {t \in Tid : t[1] = 1 /\ t[2] <= 2}
  /\ queue = [t \in Tid |-> 0]
  /\ sent = [t \in Tid |-> 0]
  /\ delivered = [t \in Tid |-> 0]
  /\ req = [r \in Reqs |-> IdleReq]
  /\ wk = [w \in Workers |-> IdleWorker]
  /\ qlog = NoLog

NextErase ==
  \/ \E r \in Posting, id \in EraseIds, simg \in BOOLEAN : EraseStart(r, id, simg)
  \/ \E r \in Posting : EraseGet(r)
  \/ \E r \in Posting : EraseFile(r)
  \/ \E r \in Posting, out \in {"ok", "mask", "inpaint"} : EraseInpaint(r, out)

SpecErase == InitErase /\ [][NextErase]_vars

(***************************************************************************)
(* The quota engine alone: check_and_consume_quota and refund_quota called *)
(* directly (as tests/services/test_quota.py does), in any order, from any *)
(* counter value a week can hold.                                          *)
(***************************************************************************)
QConsume(c, n) ==
  /\ n > 0
  /\ CheckAndConsumeQuota(c, n)
  /\ UNCHANGED <<week, rec, batch, files, queueVars, req, wk>>

QRefund(c, n) ==
  /\ n > 0
  /\ RefundQuota(c, n, TRUE)
  /\ UNCHANGED <<week, rec, batch, files, queueVars, req, wk>>

InitQuota ==
  /\ week = 1
  /\ \E u \in [Clients -> 0..WEEKLY_IMAGES] :
       quota = [c \in Clients |->
                  [w \in Weeks |-> IF w = 1 THEN UsedKey(u[c]) ELSE NoKey]]
  /\ rec = [t \in Tid |-> NoRec]
  /\ batch = [r \in Reqs |-> NoBatch]
  /\ files = {}
  /\ queue = [t \in Tid |-> 0]
  /\ sent = [t \in Tid |-> 0]
  /\ delivered = [t \in Tid |-> 0]
  /\ req = [r \in Reqs |-> IdleReq]
  /\ wk = [w \in Workers |-> IdleWorker]
  /\ qlog = NoLog

NextQuota ==
  \/ \E c \in Clients, n \in 1..MaxCount : QConsume(c, n)
  \/ \E c \in Clients, n \in 1..MaxCount : QRefund(c, n)

SpecQuota == InitQuota /\ [][NextQuota]_vars

(***************************************************************************)
(* Properties of the quota engine and of the request layer.                *)
(***************************************************************************)

\* C1: for every client and ISO week, after any interleaving of reservations
\* and refunds by concurrent handlers, the counter is within 0..WEEKLY_IMAGES.
C1_CounterInRange ==
  \A c \in Clients, w \in Weeks :
    quota[c][w].val >= 0 /\ quota[c][w].val <= WEEKLY_IMAGES

\* C1 witness: two handlers of one client reserved against the same counter,
\* one was admitted, the other rejected, and the counter is at the limit.
C1_Witness ==
  \E r1, r2 \in Reqs :
    /\ r1 # r2 /\ req[r1].c = req[r2].c
    /\ req[r1].net > 0 /\ req[r1].pc \notin {"idle", "consume", "done"}
    /\ req[r2].resp = 429
    /\ quota[req[r1].c][week].val = WEEKLY_IMAGES

\* C2: check_and_consume_quota(ip, n), n > 0, succeeds exactly when
\* counter + n <= WEEKLY_IMAGES; on success the counter grows by exactly n; a
\* request that does not fit reserves nothing (the key is left as it was).
C2_ConsumeExact ==
  qlog.op = "consume" =>
    /\ qlog.ok <=> (GetOrZero(qlog.before) + qlog.n <= WEEKLY_IMAGES)
    /\ qlog.ok => qlog.after.val = GetOrZero(qlog.before) + qlog.n
    /\ ~qlog.ok => qlog.after = qlog.before

\* C2 witness: 15 used, 6 requested: rejected, the counter stays at 15.
C2_Witness ==
  /\ qlog.op = "consume" /\ qlog.before.val = 15 /\ qlog.n = 6
  /\ ~qlog.ok /\ quota[qlog.c][qlog.w].val = 15

\* C3: refund_quota(ip, n), n > 0, has no failing outcome and sets the counter
\* to max(0, counter - n), lowering it by min(n, prior value); afterwards
\* exactly WEEKLY_IMAGES - max(0, counter - n) more units can be reserved.
C3_RefundClamped ==
  /\ \A c \in Clients, n \in 1..MaxCount : ENABLED QRefund(c, n)
  /\ qlog.op = "refund" =>
       /\ qlog.after.ex
       /\ qlog.after.val = Max(0, GetOrZero(qlog.before) - qlog.n)
       /\ qlog.after.val = GetOrZero(qlog.before) - Min(qlog.n, GetOrZero(qlog.before))
       /\ \A m \in 1..WEEKLY_IMAGES :
            (ConsumeScript(GetOrZero(qlog.after), m, WEEKLY_IMAGES) # -1)
              <=> (m <= WEEKLY_IMAGES - Max(0, GetOrZero(qlog.before) - qlog.n))

\* C3 witness: 3 of 10 reserved units were refunded; 13 more fit, 14 do not.
C3_Witness ==
  /\ qlog.op = "refund" /\ qlog.before.val = 10 /\ qlog.n = 3
  /\ quota[qlog.c][qlog.w].val = 7
  /\ ConsumeScript(quota[qlog.c][qlog.w].val, 13, WEEKLY_IMAGES) = WEEKLY_IMAGES
  /\ ConsumeScript(quota[qlog.c][qlog.w].val, 14, WEEKLY_IMAGES) = -1

\* C4 (as claimed): for every finished POST /translate or POST /batch none of
\* whose refund calls raised, the net change it made to the caller's quota
\* counter equals the number of worker tasks it enqueued.
C4_NetEqualsEnqueued ==
  \A r \in Reqs :
    (req[r].pc = "done" /\ ~req[r].rfail) => req[r].net = req[r].enq

\* C6: a rejected reservation returns 429 and changes nothing: the counter
\* key keeps its value, no TranslateRecord or BatchRecord of the request
\* exists and no task was enqueued for it.
C6_RejectChangesNothing ==
  /\ (qlog.op = "consume" /\ ~qlog.ok) =>
       qlog.after = qlog.before
  /\ \A r \in Reqs :
       (req[r].pc = "done" /\ req[r].resp = 429) =>
         /\ req[r].net = 0 /\ req[r].enq = 0 /\ req[r].refunds = <<>>
         /\ ~batch[r].ex
         /\ \A i \in 1..MaxBatch : ~rec[<<r, i>>].ex /\ sent[<<r, i>>] = 0

\* C6 witness: a client at 20 after an admitted translate; the next request is
\* rejected with 429 and the counter is still 20.
C6_Witness ==
  \E r1, r2 \in Reqs :
    /\ req[r1].resp = 201 /\ req[r1].kind = "translate"
    /\ req[r2].pc = "done" /\ req[r2].resp = 429
    /\ req[r1].c = req[r2].c
    /\ qlog.op = "consume" /\ ~qlog.ok /\ qlog.before.val = WEEKLY_IMAGES
    /\ quota[req[r2].c][week].val = WEEKLY_IMAGES


\* the record of child i of request r failed with the queueing message
QueueFailed(r, i) ==
  /\ rec[<<r, i>>].ex
  /\ rec[<<r, i>>].status = "failed"
  /\ rec[<<r, i>>].err = MSG_QUEUE

\* C9 (as claimed): if enqueueing raises in POST /translate the handler refunds
\* exactly 1 unit, the persisted record ends failed with the queueing-failure
\* message, and the response is 503.
C9_QueueFailureMarksFailed ==
  \A r \in Reqs :
    (req[r].kind = "translate" /\ req[r].pc = "done" /\ req[r].qf # {}) =>
      /\ req[r].refunds = <<1>>
      /\ QueueFailed(r, 1)
      /\ req[r].resp = 503

\* C9 (amended): if enqueueing raises in POST /translate the handler issues
\* exactly one refund, of 1 unit, and answers 503; the persisted record ends
\* failed with the queueing-failure message and its expiry kept, unless the
\* status update itself raised, in which case the record is still pending.
C9_QueueFailureBestEffort ==
  \A r \in Reqs :
    (req[r].kind = "translate" /\ req[r].pc = "done" /\ req[r].qf # {}) =>
      /\ req[r].refunds = <<1>>
      /\ req[r].resp = 503
      /\ req[r].enq = 0 /\ sent[<<r, 1>>] = 0
      /\ 1 \notin req[r].uf => (QueueFailed(r, 1) /\ rec[<<r, 1>>].ttl)
      /\ 1 \in req[r].uf => rec[<<r, 1>>] = PendingRec

\* C9 witness: a POST /translate whose enqueue raised has finished with 503,
\* its refund ran and its record is failed with the queueing message.
C9_Witness ==
  \E r \in Reqs :
    /\ req[r].kind = "translate" /\ req[r].pc = "done" /\ req[r].qf = {1}
    /\ req[r].uf = {} /\ ~req[r].rfail /\ req[r].resp = 503
    /\ QueueFailed(r, 1)

\* C10 (as claimed): in a POST /batch of N images with k failed enqueues,
\* 0 < k < N, the handler refunds exactly k units in one refund, exactly those
\* k children's records become failed, the other N-k are untouched, and the
\* request succeeds with 201.
C10_PartialQueueFailure ==
  \A r \in Reqs :
    (/\ req[r].kind = "batch" /\ req[r].pc = "done"
     /\ req[r].qf # {} /\ Cardinality(req[r].qf) < req[r].n) =>
      /\ req[r].refunds = <<Cardinality(req[r].qf)>>
      /\ req[r].resp = 201
      /\ \A i \in 1..req[r].n :
           IF i \in req[r].qf THEN QueueFailed(r, i) ELSE rec[<<r, i>>] = PendingRec

\* C10 (amended): ... the handler issues exactly one refund, of k units, and
\* answers 201; the records of the children whose enqueue succeeded are
\* untouched; each of the k children's records becomes failed unless its
\* status update raised, in which case it is still pending.
C10_PartialQueueFailureBestEffort ==
  \A r \in Reqs :
    (/\ req[r].kind = "batch" /\ req[r].pc = "done"
     /\ req[r].qf # {} /\ Cardinality(req[r].qf) < req[r].n) =>
      /\ req[r].refunds = <<Cardinality(req[r].qf)>>
      /\ req[r].resp = 201
      /\ req[r].enq = req[r].n - Cardinality(req[r].qf)
      /\ \A i \in 1..req[r].n :
           IF i \in req[r].qf /\ i \notin req[r].uf
             THEN QueueFailed(r, i) /\ rec[<<r, i>>].ttl /\ sent[<<r, i>>] = 0
             ELSE rec[<<r, i>>] = PendingRec

\* C10 witness: a finished batch with one failed and one successful enqueue:
\* one refund of 1, the failed child's record failed, the other pending, 201.
C10_Witness ==
  \E r \in Reqs :
    /\ req[r].kind = "batch" /\ req[r].pc = "done" /\ req[r].resp = 201
    /\ req[r].qf # {} /\ Cardinality(req[r].qf) < req[r].n /\ req[r].uf = {}
    /\ req[r].refunds = <<Cardinality(req[r].qf)>> /\ ~req[r].rfail
    /\ \A i \in req[r].qf : QueueFailed(r, i)
    /\ \E i \in 1..req[r].n : i \notin req[r].qf /\ rec[<<r, i>>] = PendingRec


(***************************************************************************)
(* Properties of the worker.                                               *)
(***************************************************************************)

\* C5 (as claimed): terminal states are sticky: once a TranslateRecord is
\* completed or failed, no later write by any worker execution changes its
\* status.
C5_TerminalSticky ==
  [][\A t \in Tid :
       (rec[t].ex /\ rec[t].status \in Terminal /\ rec'[t].ex)
         => rec'[t].status = rec[t].status]_vars

\* C7 (as claimed): after any status update, in every interleaving with the
\* expiry of the key, the record's key carries an expiry.
C7_RecordKeepsTtl ==
  \A t \in Tid : rec[t].ex => rec[t].ttl

\* C8 (as claimed): every execution of translate_job whose record exists ends
\* with the record completed or failed, and no error escapes the task.
C8_EndsTerminal ==
  \A w \in Workers :
    (wk[w].pc = "done" /\ wk[w].endrec # "absent") =>
      (wk[w].endrec \in Terminal /\ ~wk[w].escaped)

(***************************************************************************)
(* Further properties of the request layer.                                *)
(***************************************************************************)

\* C11: in a POST /batch of N images whose N enqueues all failed, refund_quota
\* is called exactly once, with count N, no task was published and the
\* response is 503.
C11_AllQueueFailed ==
  \A r \in Reqs :
    (/\ req[r].kind = "batch" /\ req[r].pc = "done"
     /\ req[r].qf = 1..req[r].n) =>
      /\ req[r].refunds = <<req[r].n>>
      /\ req[r].resp = 503
      /\ req[r].enq = 0

\* C11 witness: a finished batch of 2 images, both enqueues failed: one refund
\* of 2 and 503.
C11_Witness ==
  \E r \in Reqs :
    /\ req[r].kind = "batch" /\ req[r].pc = "done" /\ req[r].n = 2
    /\ req[r].qf = {1, 2} /\ req[r].refunds = <<2>> /\ req[r].resp = 503

\* C12 (as claimed): in the 201 response of a POST /batch whose enqueue failed
\* for some but not all children, each such child is reported with status
\* failed and the queueing-failure message, and the batch status is processing.
C12_ResponseReportsFailed ==
  \A r \in Reqs :
    (/\ req[r].kind = "batch" /\ req[r].pc = "done" /\ req[r].resp = 201
     /\ req[r].qf # {}) =>
      /\ req[r].body.status = "processing"
      /\ \A i \in req[r].qf :
           /\ req[r].body.images[i].status = "failed"
           /\ req[r].body.images[i].err = MSG_QUEUE

(***************************************************************************)
(* Properties of GET /batch and of the records' lifetimes.                 *)
(***************************************************************************)

\* C13: the status of every GET /batch response is derived from the children's
\* statuses as read, a child whose record is missing counting as failed:
\* processing if any child is pending or processing; otherwise completed if
\* all are completed; otherwise failed if all are failed; otherwise
\* partial_failure.
C13_BatchStatusDerived ==
  \A r \in Reqs :
    (req[r].kind = "get_batch" /\ req[r].pc = "done" /\ req[r].resp = 200) =>
      LET im == req[r].body.images
          K == 1..Len(im)
      IN /\ Len(im) = req[r].n
         /\ \A k \in K : im[k].status = IF im[k].seen = "absent" THEN "failed"
                                                                 ELSE im[k].seen
         /\ req[r].body.status =
              IF \E k \in K : im[k].seen \in {"pending", "processing"}
                THEN "processing"
              ELSE IF \A k \in K : im[k].seen = "completed" THEN "completed"
              ELSE IF \A k \in K : im[k].seen \in {"failed", "absent"} THEN "failed"
              ELSE "partial_failure"

\* C13 witness: a GET /batch answered partial_failure, from one completed
\* child and one child whose record is missing.
C13_Witness ==
  \E r \in Reqs :
    /\ req[r].kind = "get_batch" /\ req[r].pc = "done" /\ req[r].resp = 200
    /\ req[r].body.status = "partial_failure"
    /\ \E k \in 1..Len(req[r].body.images) : req[r].body.images[k].seen = "completed"
    /\ \E k \in 1..Len(req[r].body.images) : req[r].body.images[k].seen = "absent"

\* C14 (as claimed): while a BatchRecord exists, every translate_id it lists
\* resolves to an existing TranslateRecord.
C14_ChildrenOutliveBatch ==
  \A b \in Reqs :
    batch[b].ex => \A i \in 1..batch[b].n : rec[<<b, i>>].ex

\* C15: a POST /translate or POST /batch with an upload id that has no
\* UploadRecord is answered 400 INVALID_UPLOAD_ID naming the first such id,
\* before any quota is reserved: the handler made no quota call, created no
\* TranslateRecord or BatchRecord and published no task.
C15_InvalidUploadChangesNothing ==
  \A r \in Reqs :
    (/\ req[r].kind \in {"translate", "batch"}
     /\ \E k \in 1..req[r].n : ~req[r].ups[k]) =>
      /\ req[r].pc = "done" /\ req[r].resp = 400
      /\ ~req[r].ups[req[r].bad] /\ \A j \in 1..(req[r].bad - 1) : req[r].ups[j]
      /\ req[r].net = 0 /\ req[r].refunds = <<>> /\ req[r].enq = 0
      /\ ~batch[r].ex
      /\ \A i \in 1..MaxBatch :
           ~rec[<<r, i>>].ex /\ sent[<<r, i>>] = 0 /\ queue[<<r, i>>] = 0

\* C15 witness: a POST /batch of 2 upload ids, the second without
\* UploadRecord, answered 400 while the caller's counter is still absent.
C15_Witness ==
  \E r \in Reqs :
    /\ req[r].kind = "batch" /\ req[r].n = 2 /\ req[r].ups = <<TRUE, FALSE>>
    /\ req[r].resp = 400 /\ req[r].bad = 2
    /\ ~quota[req[r].c][week].ex

(***************************************************************************)
(* Who writes a TranslateRecord.                                           *)
(***************************************************************************)
\* this step is the redis.set of a worker's _update_status on translate:{t}
WorkerWrites(t) ==
  \E w \in Workers : wk[w].pc = "set" /\ wk[w].tid = t /\ wk'[w].pc # "set"

\* this step changes the value of the existing key translate:{t}
Modified(t) == rec[t].ex /\ rec'[t].ex /\ rec'[t] # rec[t]

\* C16 (as claimed): after its creation a TranslateRecord is modified only by
\* the worker: every step that changes an existing record is a worker's write.
C16_OnlyWorkerWrites ==
  [][\A t \in Tid : Modified(t) => WorkerWrites(t)]_vars

\* C16 (amended): an existing TranslateRecord is modified only by the worker,
\* or by the request handler that created it when enqueueing its task raised:
\* that handler sets it to failed with the queueing-failure message, and no
\* task was ever published for it, so no worker ever writes it.
C16_WorkerOrQueueFailure ==
  [][\A t \in Tid : Modified(t) =>
        \/ WorkerWrites(t) /\ sent[t] > 0
        \/ /\ req[t[1]].pc = "upd_set" /\ req[t[1]].i = t[2]
           /\ t[2] \in req[t[1]].qf
           /\ sent[t] = 0 /\ delivered[t] = 0
           /\ rec[t].status = "pending"
           /\ rec'[t].status = "failed" /\ rec'[t].err = MSG_QUEUE]_vars

\* C16 witness: of one batch, a record set failed by the handler after its
\* enqueue raised and a record completed by a worker.
C16_Witness ==
  \E r \in Reqs, i, j \in 1..MaxBatch :
    /\ QueueFailed(r, i) /\ sent[<<r, i>>] = 0
    /\ rec[<<r, j>>].ex /\ rec[<<r, j>>].status = "completed" /\ sent[<<r, j>>] = 1

(***************************************************************************)
(* The fields of a TranslateRecord.                                        *)
(***************************************************************************)

\* C17 (as claimed): a record the worker has set to completed carries its
\* result_url and its completed_at, and a record whose status is not completed
\* carries no result_url.
C17_ResultUrlIffCompleted ==
  \A t \in Tid :
    rec[t].ex =>
      /\ rec[t].status = "completed" => (rec[t].url /\ rec[t].done)
      /\ rec[t].status # "completed" => ~rec[t].url

\* C18 (as claimed): a TranslateRecord whose status is failed stores an
\* error_message, whatever the cause of the failure.
C18_FailedHasMessage ==
  \A t \in Tid :
    (rec[t].ex /\ rec[t].status = "failed") => rec[t].err # "none"

(***************************************************************************)
(* The expiry of quota keys.                                               *)
(***************************************************************************)

\* C19 (as claimed): whenever a quota counter key exists it carries an expiry,
\* after any sequence of reservations and refunds.
C19_QuotaKeyHasTtl ==
  \A c \in Clients, w \in Weeks : quota[c][w].ex => quota[c][w].ttl

(***************************************************************************)
(* POST /erase.                                                            *)
(***************************************************************************)

\* C20 (as claimed): a POST /erase whose translate_id is not "tr_" followed
\* by exactly 8 characters of a-f0-9 is answered 400 INVALID_TRANSLATE_ID
\* before any keyed-store read, object-store access or inpainting call.
C20_InvalidIdRejectedFirst ==
  \A r \in Reqs :
    (/\ req[r].kind = "erase"
     /\ ~(/\ Len(req[r].tidin) = Len(PREFIX) + ID_HEX_LEN
          /\ SubSeq(req[r].tidin, 1, Len(PREFIX)) = PREFIX
          /\ \A k \in (Len(PREFIX) + 1)..Len(req[r].tidin) :
               req[r].tidin[k] \in HexChars)) =>
      /\ req[r].pc = "done" /\ req[r].resp = 400
      /\ req[r].code = "INVALID_TRANSLATE_ID"
      /\ req[r].touched = {}

\* C21: without source_image, POST /erase with an accepted translate_id
\* applies its checks in this order and answers the first failure: record
\* missing, 404 TRANSLATE_NOT_FOUND; status other than completed, 400
\* TRANSLATE_NOT_COMPLETED; result file missing, 404 RESULT_IMAGE_NOT_FOUND;
\* the object store is looked at only after the record checks passed and the
\* inpainter is called only when all three passed.
C21_EraseCheckOrder ==
  \A r \in Reqs :
    (req[r].kind = "erase" /\ ~req[r].simg /\ PatternMatch(req[r].tidin)) =>
      LET cur == Lookup(req[r].tidin)
          present == cur.ex
          completed == cur.ex /\ cur.status = "completed"
          file == ResultExists(req[r].tidin)
      IN /\ req[r].pc = "done" =>
              IF ~present
                THEN req[r].resp = 404 /\ req[r].code = "TRANSLATE_NOT_FOUND"
              ELSE IF ~completed
                THEN req[r].resp = 400 /\ req[r].code = "TRANSLATE_NOT_COMPLETED"
              ELSE IF ~file
                THEN req[r].resp = 404 /\ req[r].code = "RESULT_IMAGE_NOT_FOUND"
              ELSE req[r].code \in {"none", "INPAINTING_FAILED"}
         /\ "storage" \in req[r].touched => completed
         /\ "inpaint" \in req[r].touched => (completed /\ file)

\* C21 witness: the record is missing while a result file of that id exists,
\* and the answer is 404 TRANSLATE_NOT_FOUND after the keyed-store read only.
C21_Witness ==
  \E r \in Reqs :
    /\ req[r].kind = "erase" /\ ~req[r].simg /\ req[r].pc = "done"
    /\ req[r].tidin = IdOf(<<1, 1>>)
    /\ ~rec[<<1, 1>>].ex /\ <<1, 1>> \in files
    /\ req[r].code = "TRANSLATE_NOT_FOUND" /\ req[r].touched = {"redis"}

\* C22 (as claimed): a POST /erase with a source_image and a well-formed
\* translate_id skips the record lookup, the status check and the result-file
\* check: it never answers one of their errors and reads neither the record
\* nor the result file.
C22_SourceImageSkipsChecks ==
  \A r \in Reqs :
    (/\ req[r].kind = "erase" /\ req[r].simg
     /\ req[r].tidin \in {IdOf(t) : t \in Tid}) =>
      /\ req[r].code \notin {"TRANSLATE_NOT_FOUND", "TRANSLATE_NOT_COMPLETED",
                              "RESULT_IMAGE_NOT_FOUND"}
      /\ req[r].touched \cap {"redis", "storage"} = {}

\* C23: get_batch performs no write: a step of a GET /batch handler leaves the
\* keyed store (batch records, translate records, quota counters and all
\* expiries), the result files and the queue as they were; the status is in
\* the response only.
C23_GetBatchWritesNothing ==
  [][\A r \in Reqs :
       (req'[r] # req[r] /\ req'[r].kind = "get_batch") =>
         /\ storeVars' = storeVars
         /\ queueVars' = queueVars]_vars

\* C23 witness: a GET /batch answered completed while the batch record holds
\* what POST /batch stored, its creation expiry included.
C23_Witness ==
  \E r \in Reqs :
    /\ req[r].kind = "get_batch" /\ req[r].pc = "done" /\ req[r].resp = 200
    /\ req[r].body.status = "completed"
    /\ batch[req[r].bid] = [ex |-> TRUE, ttl |-> TRUE, n |-> MaxBatch]

\* C24 (as claimed): a refund issued by a request handler gives back at most
\* what that request reserved, and from the weekly counter it reserved from:
\* when the week changed between the reservation and the refund, the refund
\* does not lower the new week's counter.
C24_RefundOwnReservation ==
  [][\A r \in Reqs :
       (req'[r] # req[r] /\ qlog'.op = "refund") =>
         /\ req[r].rweek # 0
         /\ Len(req'[r].refunds) = 1 /\ req'[r].refunds[1] <= req[r].n
         /\ qlog'.n = req'[r].refunds[1]
         /\ qlog'.w # req[r].rweek =>
              GetOrZero(qlog'.after) = GetOrZero(qlog'.before)]_vars

\* C25 (as claimed): within one execution of translate_job the first status
\* written is processing, at most one terminal status (completed or failed)
\* is written and nothing is written after it, also when the soft time limit
\* is raised; an execution that has ended after writing has written exactly
\* one terminal status.
C25_OneTerminalWrite ==
  \A w \in Workers :
    LET ws == wk[w].writes
        terminal == {k \in 1..Len(ws) : ws[k] \in Terminal}
    IN /\ ws # <<>> => ws[1] = "processing"
       /\ \A k \in terminal : k = Len(ws)
       /\ (wk[w].pc = "done" /\ ws # <<>>) => Cardinality(terminal) = 1

\* C26: a record with status completed has its result file in the object
\* store: the worker saves result/{translate_id}_result.png before it writes
\* completed, and an execution whose save raised writes failed and never
\* completed.
C26_CompletedHasResultFile ==
  /\ \A t \in Tid :
       (rec[t].ex /\ rec[t].status = "completed") => t \in files
  /\ \A w \in Workers :
       /\ (wk[w].pc \in {"get", "set"} /\ wk[w].st = "completed") =>
            wk[w].tid \in files
       /\ (wk[w].hnd /\ wk[w].err = "save error") =>
            /\ "completed" \notin {wk[w].writes[k] : k \in 1..Len(wk[w].writes)}
            /\ wk[w].pc \in {"get", "set"} => wk[w].st = "failed"

\* C26 witness: one execution completed the record after saving its file,
\* while in another the save raised and failed was written.
C26_Witness ==
  /\ rec[<<1, 1>>].ex /\ rec[<<1, 1>>].status = "failed"
  /\ rec[<<1, 1>>].err = "save error" /\ <<1, 1>> \in files
  /\ \E w \in Workers :
       /\ wk[w].pc = "done" /\ wk[w].tid = <<1, 1>>
       /\ wk[w].writes = <<"processing", "completed">>
  /\ \E w \in Workers :
       /\ wk[w].pc = "done" /\ wk[w].tid = <<1, 1>>
       /\ wk[w].err = "save error" /\ wk[w].writes = <<"processing", "failed">>

\* C27 (as claimed): when a POST /translate or POST /batch request has
\* finished, every TranslateRecord it created has a worker task enqueued or
\* has status failed.
C27_NoPendingWithoutTask ==
  \A r \in Reqs :
    (req[r].pc = "done" /\ req[r].kind \in {"translate", "batch"}) =>
      \A i \in 1..MaxBatch :
        rec[<<r, i>>].ex =>
          \/ sent[<<r, i>>] >= 1
          \/ rec[<<r, i>>].status = "failed"

\* C27 (amended): when such a request has finished, every TranslateRecord it
\* created has a worker task enqueued or has status failed, with two
\* exceptions, in both of which the record stays pending with no task: the
\* children stored before persisting a later child or the BatchRecord raised
\* (the request ends with 500), and a record whose enqueue raised and whose
\* status update raised as well.
C27_NoPendingWithoutTaskBestEffort ==
  \A r \in Reqs :
    (req[r].pc = "done" /\ req[r].kind \in {"translate", "batch"}) =>
      \A i \in 1..MaxBatch :
        rec[<<r, i>>].ex =>
          IF req[r].resp = 500 \/ i \in req[r].uf
            THEN rec[<<r, i>>].status = "pending" /\ sent[<<r, i>>] = 0
          ELSE IF i \in req[r].qf
            THEN rec[<<r, i>>].status = "failed" /\ sent[<<r, i>>] = 0
          ELSE sent[<<r, i>>] = 1

\* C27 witness: a POST /batch of two images ended with 500 because persisting
\* raised after the first child was stored, and that child is pending with
\* no task.
C27_Witness ==
  \E r \in Reqs :
    /\ req[r].pc = "done" /\ req[r].kind = "batch" /\ req[r].n = 2
    /\ req[r].resp = 500
    /\ rec[<<r, 1>>].ex /\ rec[<<r, 1>>].status = "pending"
    /\ sent[<<r, 1>>] = 0

\* C28 (as claimed): once a GET /batch returned completed, failed or
\* partial_failure, the next GET /batch of that batch that finds the batch
\* record returns the same status.
C28_TerminalBatchStatusStable ==
  \A r \in Reqs :
    (/\ req[r].kind = "get_batch" /\ req[r].pc = "done" /\ req[r].resp = 200
     /\ req[r].last \in {"completed", "failed", "partial_failure"}) =>
      req[r].body.status = req[r].last

\* C29: the request layer publishes at most one task per translate_id, and
\* only for a record it has persisted: at the moment of the enqueue the
\* pending record is in the keyed store, so a worker starting at once finds it.
C29_EnqueueOnceAfterPersist ==
  [][\A t \in Tid :
       sent'[t] # sent[t] =>
         /\ sent[t] = 0 /\ sent'[t] = 1
         /\ queue'[t] = queue[t] + 1
         /\ rec[t].ex /\ rec[t].status = "pending"
         /\ rec'[t] = rec[t]]_vars

\* C29 witness: a POST /batch has published one task for each of its two
\* children, whose records are pending.
C29_Witness ==
  \E r \in Reqs :
    /\ req[r].kind = "batch" /\ req[r].pc = "done" /\ req[r].resp = 201
    /\ \A i \in 1..2 :
         /\ sent[<<r, i>>] = 1 /\ queue[<<r, i>>] = 1
         /\ rec[<<r, i>>].ex /\ rec[<<r, i>>].status = "pending"

C31_RoutedAndSorted ==
  \A w \in Workers :
    LET p == wk[w].pl
    IN /\ \A k \in 1..Len(p.log) :
            /\ p.log[k].stage = "bubble_cleaning" => p.log[k].regions = p.bub
            /\ p.log[k].stage = "background_restoration" =>
                 /\ p.log[k].regions = (1..p.nt) \ p.bub
                 /\ p.log[k].image = "cleaned"
       /\ \A i, j \in 1..Len(p.regs) : i < j => p.regs[i] < p.regs[j]
       /\ \A i \in 1..Len(p.regs) : p.regs[i] \in 1..p.nt
       /\ \A k \in 1..Len(p.log) :
            (p.log[k].stage = "background_restoration"
              /\ p.log[k].out = "returned") =>
              \A i \in p.bub : \E j \in 1..Len(p.regs) : p.regs[j] = i

\* C31 witness: the second of two regions was a bubble region and the first
\* a free region, both stages returned, and the result lists the free region
\* first.
C31_Witness ==
  \E w \in Workers :
    /\ wk[w].pl.nt = 2 /\ wk[w].pl.bub = {2}
    /\ wk[w].pl.pc = "translation"
    /\ wk[w].pl.bupd = <<2>>
    /\ wk[w].pl.regs = <<1, 2>>

\* C32: RegionClassifier.classify puts every input region into exactly one
\* of bubble_regions and free_regions, into bubble_regions exactly when
\* find_bubble returns a bubble for its text_bbox; each list keeps the input
\* order, each region keeps its index and text_bbox, and the input regions
\* are as they were.
C32_ClassifyPartitions ==
  \A w \in Workers :
    LET f == wk[w].inp
        n == Len(f.text_regions)
        Has(list, i) == \E j \in 1..Len(list) : list[j].index = i
        Kept(list) ==
          /\ \A i, j \in 1..Len(list) : i < j => list[i].index < list[j].index
          /\ \A j \in 1..Len(list) :
               /\ list[j].index \in 1..n
               /\ list[j].text_bbox = f.text_regions[list[j].index].text_bbox
    IN f.pc \in {"classified", "cleaned"} =>
         /\ Len(f.bubble_regions) + Len(f.free_regions) = n
         /\ \A k \in 1..n :
              LET bubble == find_bubble(f.text_regions[k].text_bbox, f.bubble_bboxes)
              IN /\ Has(f.bubble_regions, k) <=> bubble # None
                 /\ Has(f.free_regions, k) <=> bubble = None
                 /\ f.text_regions[k] = TextRegion(k, f.text_regions[k].text_bbox, None, None)
         /\ Kept(f.bubble_regions) /\ Kept(f.free_regions)
         /\ \A j \in 1..Len(f.bubble_regions) :
              f.bubble_regions[j].bubble_bbox =
                find_bubble(f.bubble_regions[j].text_bbox, f.bubble_bboxes)
         /\ \A j \in 1..Len(f.free_regions) : f.free_regions[j].bubble_bbox = None

\* C32 witness: two regions were put into bubble_regions with
\* different bubbles.
C32_Witness ==
  \E w \in Workers :
    /\ wk[w].inp.pc = "classified"
    /\ Len(wk[w].inp.bubble_regions) = 2
    /\ wk[w].inp.bubble_regions[1].bubble_bbox # wk[w].inp.bubble_regions[2].bubble_bbox

\* C33: the inpaint box the bubble cleaner computes for a text matched to a
\* bubble lies inside the image and inside inscribed_rect(bubble, 0.65),
\* wherever the text lies relative to that rectangle.
C33_InpaintBBoxInside ==
  \A w \in Workers :
    LET f == wk[w].inp
    IN f.pc = "cleaned" =>
         \A j \in 1..Len(f.updated) :
           LET box == f.updated[j].inpaint_bbox
               ins == inscribed_rect(f.updated[j].bubble_bbox)
           IN /\ 0 <= box.x1 /\ box.x2 <= f.size[1]
              /\ 0 <= box.y1 /\ box.y2 <= f.size[2]
              /\ ins.x1 <= box.x1 /\ box.x2 <= ins.x2
              /\ ins.y1 <= box.y1 /\ box.y2 <= ins.y2

\* C34: find_bubble returns the first bubble of greatest overlap ratio
\* area(text /\ bubble) / area(text) when that ratio is more than 0.5, and
\* none otherwise (ratio 0.5 or less, text of no area, no bubbles).
C34_FindBubbleBestAboveHalf ==
  \A w \in Workers :
    LET f == wk[w].inp
        bubbles == f.bubble_bboxes
        text == f.text_regions[f.text].text_bbox
        area == (text.x2 - text.x1) * (text.y2 - text.y1)
        Inter(b) ==
          LET dx == Min2(text.x2, b.x2) - Max2(text.x1, b.x1)
              dy == Min2(text.y2, b.y2) - Max2(text.y1, b.y1)
          IN IF dx > 0 /\ dy > 0 THEN dx * dy ELSE 0
        Above(k) == area > 0 /\ 2 * Inter(bubbles[k]) > area
        FirstBest(k) ==
          /\ \A j \in 1..Len(bubbles) : Inter(bubbles[j]) <= Inter(bubbles[k])
          /\ \A j \in 1..(k - 1) : Inter(bubbles[j]) < Inter(bubbles[k])
    IN f.pc = "found" =>
         IF \E k \in 1..Len(bubbles) : Above(k)
         THEN \E k \in 1..Len(bubbles) :
                Above(k) /\ FirstBest(k) /\ f.found = bubbles[k]
         ELSE f.found = None

\* C34 witness: two different bubbles cover the text equally and by more
\* than half, and the first of them was returned.
C34_Witness ==
  \E w \in Workers :
    LET f == wk[w].inp
    IN /\ f.pc = "found"
       /\ Len(f.bubble_bboxes) = 2
       /\ f.bubble_bboxes[1] # f.bubble_bboxes[2]
       /\ calc_overlap_ratio(f.text_regions[f.text].text_bbox, f.bubble_bboxes[1])
            = calc_overlap_ratio(f.text_regions[f.text].text_bbox, f.bubble_bboxes[2])
       /\ f.found = f.bubble_bboxes[1]

\* C35: translate() maps every returned item whose index p satisfies
\* 0 <= p < K, K the number of valid boxes submitted, to the position of the
\* p-th valid box in the box list, leaves out the items that are out of
\* range or malformed, returns the results by ascending index, and calls
\* the backend not at all when the list is empty or holds no valid box.
C35_TranslateMapsToOriginalIndex ==
  \A w \in Workers :
    LET t == wk[w].tr
        n == Len(t.bboxes)
        Valid(k) == t.bboxes[k].x2 > t.bboxes[k].x1 /\ t.bboxes[k].y2 > t.bboxes[k].y1
        K == Cardinality({k \in 1..n : Valid(k)})
        \* position (from 0) of the p-th (from 0) valid box
        Orig(p) ==
          CHOOSE i \in 0..(n - 1) :
            Valid(i + 1) /\ Cardinality({k \in 1..i : Valid(k)}) = p
        Kept(k) == t.raw[k].valid /\ 0 <= t.raw[k].index /\ t.raw[k].index < K
    IN /\ (t.pc # "idle" /\ K = 0) => t.calls = 0
       /\ t.pc \in {"input", "call"} => t.calls = 0
       /\ (t.pc = "returned" /\ K > 0) =>
            /\ t.calls = 1
            /\ \A i, j \in 1..Len(t.res) : i < j => t.res[i].index <= t.res[j].index
            /\ Len(t.res) = Cardinality({k \in 1..Len(t.raw) : Kept(k)})
            /\ \A i \in 0..(n - 1), x \in Translations :
                 Cardinality({j \in 1..Len(t.res) :
                               t.res[j] = [index |-> i, translated |-> x]})
                 = Cardinality({k \in 1..Len(t.raw) :
                                 /\ Kept(k)
                                 /\ Orig(t.raw[k].index) = i
                                 /\ t.raw[k].translated = x})

\* C35 witness: the first box was invalid and the second valid; the backend
\* returned an item with index 0, mapped to index 1, and an item out of
\* range, left out.
C35_Witness ==
  \E w \in Workers :
    LET t == wk[w].tr
    IN /\ t.pc = "returned" /\ t.calls = 1
       /\ Len(t.bboxes) = 2
       /\ ~is_valid(t.bboxes[1]) /\ is_valid(t.bboxes[2])
       /\ Len(t.raw) = 2 /\ t.raw[1].index = 1 /\ t.raw[2].index = 0
       /\ t.raw[2].valid
       /\ t.res = <<[index |-> 1, translated |-> t.raw[2].translated]>>

\* C36 (as stated): detect() calls the detection API at most max_retries
\* times in all, sleeps 2^attempt seconds between attempts, ends at once
\* without another call on a response that does not fit the schema, and
\* when all attempts failed raises RuntimeError caused by the last error.
C36_AtMostMaxRetriesCalls ==
  \A w \in Workers :
    LET dt == wk[w].det
    IN /\ dt.calls <= dt.max_retries
       /\ \A i \in 1..Len(dt.sleeps) : dt.sleeps[i] = 2 ^ (i - 1)
       /\ dt.pc = "predict" => Len(dt.sleeps) = dt.calls
       /\ dt.last = "schema mismatch" =>
            dt.pc = "raised" /\ dt.exc = "ValidationError"
       /\ (dt.pc = "raised" /\ dt.exc = "RuntimeError") =>
            /\ Len(dt.errors) = dt.calls
            /\ dt.cause = dt.last /\ dt.cause \in PredictErrors

\* C36 (amended): the same with at most 1 + max_retries calls in all (the
\* first call and max_retries retries).
C36_AtMostOnePlusMaxRetriesCalls ==
  \A w \in Workers :
    LET dt == wk[w].det
    IN /\ dt.calls <= 1 + dt.max_retries
       /\ \A i \in 1..Len(dt.sleeps) : dt.sleeps[i] = 2 ^ (i - 1)
       /\ dt.pc = "predict" => Len(dt.sleeps) = dt.calls
       /\ dt.last = "schema mismatch" =>
            dt.pc = "raised" /\ dt.exc = "ValidationError"
       /\ (dt.pc = "raised" /\ dt.exc = "RuntimeError") =>
            /\ Len(dt.errors) = dt.calls
            /\ dt.cause = dt.last /\ dt.cause \in PredictErrors

\* C36 witness: with the default max_retries every call failed, the waits
\* were 1, 2 and 4 seconds, and RuntimeError was raised from the last error.
C36_Witness ==
  \E w \in Workers :
    /\ wk[w].det.max_retries = DEFAULT_MAX_RETRIES
    /\ wk[w].det.pc = "raised" /\ wk[w].det.exc = "RuntimeError"
    /\ wk[w].det.sleeps = <<1, 2, 4>>
    /\ wk[w].det.errors[1] # wk[w].det.cause
    /\ wk[w].det.cause = "timeout"

\* C37: when every call fails detect() makes exactly 1 + max_retries calls
\* (4 with the default) and raises RuntimeError; a call that succeeds ends
\* detect with its result and no further call, so one failure followed by a
\* success is exactly 2 calls.
C37_CallCounts ==
  \A w \in Workers :
    LET dt == wk[w].det
    IN /\ (dt.pc = "raised" /\ dt.exc = "RuntimeError") =>
            /\ dt.calls = 1 + dt.max_retries
            /\ dt.max_retries = DEFAULT_MAX_RETRIES => dt.calls = 4
       /\ dt.pc \in {"predict", "sleep"} => dt.calls <= dt.max_retries
       /\ dt.last = "response" => dt.pc = "returned"
       /\ dt.pc = "returned" =>
            /\ dt.last = "response"
            /\ dt.calls = Len(dt.errors) + 1
            /\ Len(dt.errors) = 1 => dt.calls = 2

\* C37 witness: with the default max_retries one worker made 4 failing
\* calls and raised RuntimeError.
C37_Witness ==
  \E w \in Workers :
    /\ wk[w].det.max_retries = DEFAULT_MAX_RETRIES
    /\ wk[w].det.pc = "raised" /\ wk[w].det.exc = "RuntimeError"
    /\ wk[w].det.calls = 4

\* C38: when detection returns no text region, translate_image returns the
\* original image and calls neither the inpainter nor the translation
\* backend nor the renderer, whatever the number of bubbles detected.
C38_NoTextReturnsOriginal ==
  \A w \in Workers :
    LET p == wk[w].pl
    IN (Len(p.log) >= 1 /\ p.log[1].out = "returned" /\ p.nt = 0) =>
         /\ Len(p.log) = 1
         /\ p.pc \in {"open_original", "returned", "raised"}
         /\ p.pc = "returned" => p.img = "original"

\* C38 witness: detection found bubbles and no text, and translate_image
\* returned the original image after the detection stage alone.
C38_Witness ==
  \E w \in Workers :
    /\ wk[w].pl.pc = "returned" /\ wk[w].pl.img = "original"
    /\ wk[w].pl.nt = 0 /\ wk[w].pl.nb > 0
    /\ Len(wk[w].pl.log) = 1

====
